---- MODULE Spec2Model ----
(***************************************************************************)
(* Model of goolx: the call gate (OlxAPI's embedded sync.Mutex around the  *)
(* olxapi.dll procedures) and the fault session flags faultRun and         *)
(* faultPicked, as goroutines drive them through Client / OlxAPI methods.  *)
(*                                                                         *)
(* Granularity.  A goroutine's steps are split wherever another goroutine  *)
(* can observe or disturb them: each store to a flag, each load of a flag  *)
(* made without the lock, the start and the return of a native procedure.  *)
(* A Lock is taken together with the first statement of its critical       *)
(* section and an Unlock together with the last one: a goroutine that      *)
(* waits for the mutex observes nothing in between.  A flag is one byte,   *)
(* so an unlocked load yields the value of the latest store that reached   *)
(* memory; the interleaving of the store actions covers every such value.  *)
(*                                                                         *)
(* Spec follows the fault session of one client shared by the goroutines;  *)
(* SpecGate follows plain gate operations on all clients of the process.   *)
(***************************************************************************)
EXTENDS Integers, Naturals, Sequences, FiniteSets, TLC

\* ---- bounds ----
NumThreads == 2
NumClients == 2

\* ---- program constants ----
OLXAPIFailure == 0
OLXAPIOk == 1
\* int(r) of a get-next procedure whose sequence is exhausted
Sentinel == -1

Threads == 1..NumThreads
Clients == 1..NumClients
NoThread == 0

FaultOps == {"DoFault", "DoSteppedEvent"}
QueryOps == {"GetSCVoltage", "GetSCCurrent"}
GateOps == {"SaveDataFile", "MakeOutageList"}
\* Operations of the data layer that go through the gate once: OlxAPI.GetData
\* and one step of a handle cursor (handleIterator.Next calling GetEquipment).
PlainOps == {"GetData", "GetEquipment"}
Ops == FaultOps \cup QueryOps \cup GateOps \cup PlainOps \cup {"PickFault"}

SessionOps == FaultOps \cup QueryOps \cup {"PickFault"}
\* The operations that replace or modify the model the engine holds.
ModelOps == {"LoadDataFile", "CloseDataFile", "ReadChangeFile"}

\* The client whose fault session is followed.
SessionClient == 1

VARIABLES
    pc,          \* pc[t]: position of goroutine t inside its operation
    op,          \* op[t]: the operation goroutine t is executing
    cl,          \* cl[t]: the client (OlxAPI instance) the operation is called on
    r,           \* r[t]: return code of the goroutine's last native call
    ncalls,      \* ncalls[t]: native invocations made by the current operation
    ret,         \* ret[t]: the error value the operation returns
    msgOwn,      \* msgOwn[t]: the error string fetched describes t's own failure
    pre,         \* pre[t]: <<faultRun, faultPicked>> of the client when the operation was called
    overlap,     \* overlap[t]: another operation on the same client ran during this one
    mutex,       \* mutex[c]: holder of client c's sync.Mutex, NoThread when free
    faultRun,    \* faultRun[c]
    faultPicked, \* faultPicked[c]
    engRun,      \* engine: the most recent doFault/doSteppedEvent invocation returned success
    engPicked,   \* engine: a pickFault invocation returned success since that fault run
    errOwner     \* engine: goroutine whose failure the last-error string describes

\* A cursor (iterator) as one goroutine uses it, and the engine sequence it
\* walks.  Fields of the iterator struct, then what its caller has seen.
VARIABLES
    kind,        \* constructor that made the cursor, "none" before any
    items,       \* engine: number of items in the sequence the cursor walks
    hnd,         \* the cursor's hnd / i / step / indx field
    done,        \* the cursor's done field
    err,         \* the cursor's err field ("nil" for a cursor type without one)
    nNext,       \* Next() calls made on the cursor
    nTrue,       \* Next() calls that returned true
    lastRet,     \* result of the last Next(): "none", "true" or "false"
    invoked,     \* the last Next() called the native procedure
    code,        \* return code of the cursor's last native call
    arg,         \* index passed to PickFault by the cursor's last native call
    failed,      \* a native call of the cursor returned OLXAPIFailure
    wasFalse,    \* a Next() of the cursor has returned false
    afterReset   \* Reset() was called and no Next() since

\* A Data value as one goroutine builds it with Client.GetData and reads it
\* with Scan.
VARIABLES
    tokens,      \* Data.tokens: the kind of each requested token, in request order
    pos,         \* tokens GetData's loop has processed
    tokErr,      \* tokErr[i]: the error getData returned for token i
    derr,        \* Data.err: 0 for nil, else the token whose error it holds
    ddata,       \* Data.data
    hasLen,      \* ok of the ArrayLengths lookup made for the last token (TRUE if none was made)
    natFailed,   \* a native call made for this Data returned OLXAPIFailure
    nEq,         \* native equipmentType invocations made for this Data
    nGet,        \* native getData invocations made for this Data
    ndest,       \* destinations passed to Scan
    scanRet,     \* result of Scan: "none" before, "nil", "err" or "panic"
    written      \* destinations Scan has assigned

\* The library handle of a client.
VARIABLES
    released     \* released[c]: dll.Release() of client c has unloaded olxapi.dll

\* One FaultConfig and the options applied to it since NewFaultConfig.
VARIABLES
    build,       \* the FaultConn of "fault.go" or the one of "part_001"
    fltConn,     \* cfg.fltConn, slots 0..3
    fltOpt,      \* cfg.fltOpt, slots 0..14
    outageList,  \* cfg.outageList
    outageOpt,   \* cfg.outageOpt, slots 0..3
    named,       \* the connections named by the FaultConn options applied so far
    lastConn,    \* the connections of the FaultConn option applied last, <<>> if none
    params,      \* <<option, slot, value>>: the parameter each applied option gave
    nOpts        \* the number of options applied

\* One integer field of an object: SetData, PostData, GetData and Scan.
VARIABLES
    iStage,      \* "none", then "set", "posted", "got" as the three calls are made
    iKind,       \* the kind of the token, token / 100
    iIn,         \* the int given to SetData
    pending,     \* the four bytes the engine holds for PostData, <<>> if none
    stored,      \* the four bytes of the field in the engine's model
    iOut,        \* the int Scan stored in the destination
    iRet,        \* the error of the call made last
    iFailed      \* some call returned an error

\* The tags of one object of the engine's model, and the calls that use them.
VARIABLES
    engTags,     \* the tag string the engine holds for the object
    lastSet,     \* the tags given to the TagsSet called last, <<>> if none
    lastGot,     \* the tags the TagsGet called last returned
    tagStage,    \* "none", "set" after TagsSet, "got" after TagsGet
    setErr,      \* the error of the TagsSet called last
    getErr,      \* the error of the TagsGet called last
    apc,         \* apc[t]: goroutine t in TagsAppend: "idle", "get", "read", "set", "done"
    aread        \* aread[t]: the tags its TagsGet returned

\* One line of the engine's model and the Line object GetLine makes of it.
VARIABLES
    lnType,      \* the equipment type of the handle given to GetLine
    lnEng,       \* lnEng[token]: the value the engine holds for the token
    lnLine,      \* lnLine[field]: the fields of the Line returned, 0 before
    lnRet        \* "none" before GetLine, then "nil" or "err"

\* Symmetrical components of one triple of phasors.
VARIABLES
    phIn,        \* the phase phasors <<a, b, c>> given to PhaseToSeq, <<>> before
    phSeq,       \* <<seq0, seq1, seq2>> returned by PhaseToSeq, <<>> before
    phOut        \* <<a, b, c>> returned by SeqToPhase(seq0, seq1, seq2), <<>> before

\* The pure conversion functions, applied to one input at a time.
VARIABLES
    cvKind,      \* convertAssignData: kind of the token whose value is scanned
    cvDest,      \* convertAssignData: Go type of the destination
    cvNil,       \* convertAssignData: the destination is a nil pointer
    cvRet,       \* convertAssignData: "none" before, "nil" or "err"
    sFn,         \* string functions: the function or operation applied last
    sIn,         \* its input: the bytes of a string or of a native buffer
    sOut,        \* the strings (byte sequences) it returned
    sRet,        \* "none" before, "nil", "err", "ErrOlxAPI" or "panic"
    sCall,       \* the operation invoked its native procedure
    fIn,         \* float64ToUint32: the double, <<sign, exponent, mantissa limbs>>
    fWords       \* float64ToUint32: the two words returned, each <<low, high>> half

flags == <<faultRun, faultPicked>>
engine == <<engRun, engPicked, errOwner>>
gate == <<pc, op, cl, r, ncalls, ret, msgOwn, pre, overlap, mutex, faultRun, faultPicked, engRun, engPicked, errOwner>>
cursor == <<kind, items, hnd, done, err, nNext, nTrue, lastRet, invoked, code, arg, failed, wasFalse, afterReset>>
data == <<tokens, pos, tokErr, derr, ddata, hasLen, natFailed, nEq, nGet, ndest, scanRet, written>>
conv == <<cvKind, cvDest, cvNil, cvRet, sFn, sIn, sOut, sRet, sCall, fIn, fWords>>
phasor == <<phIn, phSeq, phOut>>
config == <<build, fltConn, fltOpt, outageList, outageOpt, named, lastConn, params, nOpts>>
intio == <<iStage, iKind, iIn, pending, stored, iOut, iRet, iFailed>>
tags == <<engTags, lastSet, lastGot, tagStage, setErr, getErr, apc, aread>>
lines == <<lnType, lnEng, lnLine, lnRet>>
local == <<cursor, data, conv, released, phasor, config, intio, tags, lines>>
\* What the methods of a cursor, of a Data value and the conversion functions
\* leave alone.
cursorFrame == <<gate, data, conv, released, phasor, config, intio, tags, lines>>
dataFrame == <<gate, cursor, conv, released, phasor, config, intio, tags, lines>>
convFrame == <<gate, cursor, data, released, phasor, config, intio, tags, lines>>
libFrame == <<cursor, data, conv, phasor, config, intio, tags, lines>>
phasorFrame == <<gate, cursor, data, conv, released, config, intio, tags, lines>>
configFrame == <<gate, cursor, data, conv, released, phasor, intio, tags, lines>>
intioFrame == <<gate, cursor, data, conv, released, phasor, config, tags, lines>>
tagsFrame == <<gate, cursor, data, conv, released, phasor, config, intio, lines>>
linesFrame == <<gate, cursor, data, conv, released, phasor, config, intio, tags>>
vars == <<gate, local>>

NoFlags == <<FALSE, FALSE>>

\* No cursor has been made yet.
NoCursor ==
    /\ kind = "none"
    /\ items = 0
    /\ hnd = 0
    /\ done = FALSE
    /\ err = "nil"
    /\ nNext = 0
    /\ nTrue = 0
    /\ lastRet = "none"
    /\ invoked = FALSE
    /\ code = OLXAPIOk
    /\ arg = 0
    /\ failed = FALSE
    /\ wasFalse = FALSE
    /\ afterReset = FALSE

\* The zero Data value.
NoData ==
    /\ tokens = <<>>
    /\ pos = 0
    /\ tokErr = <<>>
    /\ derr = 0
    /\ ddata = <<>>
    /\ hasLen = TRUE
    /\ natFailed = FALSE
    /\ nEq = 0
    /\ nGet = 0
    /\ ndest = 0
    /\ scanRet = "none"
    /\ written = 0

\* No conversion has been made yet.
NoConv ==
    /\ cvKind = "none"
    /\ cvDest = "none"
    /\ cvNil = FALSE
    /\ cvRet = "none"
    /\ sFn = "none"
    /\ sIn = <<>>
    /\ sOut = <<>>
    /\ sRet = "none"
    /\ sCall = FALSE
    /\ fIn = <<>>
    /\ fWords = <<>>

EmptyConfig ==
    /\ fltConn = [i \in 0..3 |-> 0]
    /\ fltOpt = [i \in 0..14 |-> 0]
    /\ outageList = <<0>>
    /\ outageOpt = [i \in 0..3 |-> 0]
    /\ named = {}
    /\ lastConn = <<>>
    /\ params = {}
    /\ nOpts = 0

NoIntIO ==
    /\ iStage = "none"
    /\ iKind = "none"
    /\ iIn = 0
    /\ pending = <<>>
    /\ stored = <<0, 0, 0, 0>>
    /\ iOut = 0
    /\ iRet = "nil"
    /\ iFailed = FALSE

NoTags ==
    /\ engTags = <<>>
    /\ lastSet = <<>>
    /\ lastGot = <<>>
    /\ tagStage = "none"
    /\ setErr = "nil"
    /\ getErr = "nil"
    /\ apc = [t \in Threads |-> "idle"]
    /\ aread = [t \in Threads |-> <<>>]

\* the tokens getLine requests, in the order of its GetData call
LineTokens ==
    <<"LNnBus1Hnd", "LNnBus2Hnd", "LNsID", "LNsName", "LNnInService",
      "LNnMuPairHnd", "LNdLength", "LNsLengthUnit", "LNdR", "LNdX", "LNdR0",
      "LNdX0", "LNdB1", "LNdG1", "LNdB10", "LNdG10", "LNdB2", "LNdG2",
      "LNdB20", "LNdG20">>
\* the destinations getLine gives to Scan, in the order of its Scan call
LineDests ==
    <<"bus1Hnd", "bus2Hnd", "CktID", "Name", "InService", "MuPairHnd",
      "Length", "LengthUnit", "X", "R", "X0", "R0", "B1", "G1", "B10", "G10",
      "B2", "G2", "B20", "G20">>
RelayTokens == <<"LNnRlyGr1Hnd", "LNnRlyGr2Hnd">>
RelayDests == <<"RelayGrp1Hnd", "RelayGrp2Hnd">>
Range(q) == {q[i] : i \in 1..Len(q)}
LineFields == Range(LineDests) \cup Range(RelayDests)
AllLineTokens == Range(LineTokens) \cup Range(RelayTokens)

NoLine ==
    /\ lnType = "TCLine"
    /\ lnEng = [k \in AllLineTokens |-> 0]
    /\ lnLine = [f \in LineFields |-> 0]
    /\ lnRet = "none"

Init ==
    /\ NoLine
    /\ NoTags
    /\ build = "fault.go"
    /\ EmptyConfig
    /\ NoIntIO
    /\ NoCursor
    /\ NoData
    /\ NoConv
    /\ released = [c \in Clients |-> FALSE]
    /\ phIn = <<>>
    /\ phSeq = <<>>
    /\ phOut = <<>>
    /\ pc = [t \in Threads |-> "idle"]
    /\ op = [t \in Threads |-> "none"]
    /\ cl = [t \in Threads |-> 1]
    /\ r = [t \in Threads |-> OLXAPIOk]
    /\ ncalls = [t \in Threads |-> 0]
    /\ ret = [t \in Threads |-> "none"]
    /\ msgOwn = [t \in Threads |-> FALSE]
    /\ pre = [t \in Threads |-> NoFlags]
    /\ overlap = [t \in Threads |-> FALSE]
    /\ mutex = [c \in Clients |-> NoThread]
    /\ faultRun = [c \in Clients |-> FALSE]
    /\ faultPicked = [c \in Clients |-> FALSE]
    /\ engRun = FALSE
    /\ engPicked = FALSE
    /\ errOwner = NoThread

\* ---- helpers ----
Goto(t, p) == pc' = [pc EXCEPT ![t] = p]
Return(t, e) == /\ pc' = [pc EXCEPT ![t] = "ret"]
                /\ ret' = [ret EXCEPT ![t] = e]
Active(u) == pc[u] \notin {"idle", "ret"}
InNative(u) == pc[u] \in {"incall", "es_incall"}

\* Handing the result to the caller touches nothing shared and commutes with
\* every step of the other goroutines, so it is scheduled right after the
\* return: a state with pc[u] = "ret" is the state the caller returns into.
NoneReturned == \A u \in Threads : pc[u] # "ret"
\* Goroutine t is at position p and is scheduled.
At(t, p) == pc[t] = p /\ NoneReturned

\* sync.Mutex.Lock: blocks until the mutex is free; not reentrant.
Lock(t) == /\ mutex[cl[t]] = NoThread
           /\ mutex' = [mutex EXCEPT ![cl[t]] = t]
\* sync.Mutex.Unlock
Unlock(t) == mutex' = [mutex EXCEPT ![cl[t]] = NoThread]
\* Lock ... Unlock within one step: the mutex must be free and stays free.
Locked(t) == /\ mutex[cl[t]] = NoThread
             /\ UNCHANGED mutex

\* First statement after entry, per operation.
EntryPc(o, nilCfg) ==
    IF o = "DoFault" THEN (IF nilCfg THEN "nilcfg" ELSE "rf_run")
    ELSE IF o = "DoSteppedEvent" THEN (IF nilCfg THEN "se_nilcfg" ELSE "rf_run")
    ELSE IF o = "PickFault" THEN "pf_chk"
    ELSE IF o \in QueryOps THEN "gs_chkrun"
    ELSE IF o = "Release" THEN "rl_lock"
    ELSE "lock"

\* A goroutine calls operation o on client c.  pre and overlap record, for the
\* caller, the flags at the call and whether the call ran alone on its
\* client; pre is kept only while the call runs alone.
Call(t, c, o, nilCfg) ==
    LET busy == \E v \in Threads \ {t} : Active(v) /\ cl[v] = c IN
    /\ At(t, "idle")
    /\ op' = [op EXCEPT ![t] = o]
    /\ cl' = [cl EXCEPT ![t] = c]
    /\ pc' = [pc EXCEPT ![t] = EntryPc(o, nilCfg)]
    /\ overlap' = [u \in Threads |->
            IF u = t THEN busy
            ELSE overlap[u] \/ (pc[u] # "idle" /\ cl[u] = c)]
    /\ pre' = [u \in Threads |->
            IF u = t THEN (IF busy THEN NoFlags ELSE <<faultRun[c], faultPicked[c]>>)
            ELSE IF pc[u] # "idle" /\ cl[u] = c THEN NoFlags ELSE pre[u]]
    /\ UNCHANGED <<r, ncalls, ret, msgOwn, mutex, flags, engine, local>>

\* A goroutine calls a fault-session operation: Client.DoFault (config nil or
\* not), DoSteppedEvent, PickFault, GetSCVoltage..., GetSCCurrent...
BeginSession(t) ==
    \E o \in SessionOps, nilCfg \in BOOLEAN :
        /\ nilCfg => o = "DoFault"
        /\ Call(t, SessionClient, o, nilCfg)

\* A goroutine calls a fault-session operation; the config given to DoFault or
\* to DoSteppedEvent is nil or not.
BeginConfig(t) ==
    \E o \in SessionOps, nilCfg \in BOOLEAN :
        /\ nilCfg => o \in {"DoFault", "DoSteppedEvent"}
        /\ Call(t, SessionClient, o, nilCfg)

\* A goroutine calls a fault-session operation or loads, closes or changes the
\* model of the session's client.
BeginModel(t) ==
    \E o \in SessionOps \cup ModelOps :
        Call(t, SessionClient, o, FALSE)

\* A goroutine reads a field or steps a handle cursor on the session's client.
BeginPlain(t) ==
    \E o \in PlainOps : Call(t, SessionClient, o, FALSE)

\* A goroutine calls a plain gate operation on any client.
BeginGate(t) ==
    \E c \in Clients, o \in GateOps : Call(t, c, o, FALSE)

\* A goroutine saves the data file or releases the library of the session's
\* client.  No operation is begun once a Release has returned.
BeginRelease(t) ==
    \E o \in {"SaveDataFile", "Release"} :
        /\ ~released[SessionClient]
        /\ Call(t, SessionClient, o, FALSE)

\* The caller has received the result; the goroutine is free for another call.
Finish(t) ==
    /\ pc[t] = "ret"
    /\ Goto(t, "idle")
    /\ op' = [op EXCEPT ![t] = "none"]
    /\ cl' = [cl EXCEPT ![t] = 1]
    /\ r' = [r EXCEPT ![t] = OLXAPIOk]
    /\ ncalls' = [ncalls EXCEPT ![t] = 0]
    /\ ret' = [ret EXCEPT ![t] = "none"]
    /\ msgOwn' = [msgOwn EXCEPT ![t] = FALSE]
    /\ pre' = [pre EXCEPT ![t] = NoFlags]
    /\ overlap' = [overlap EXCEPT ![t] = FALSE]
    /\ UNCHANGED <<mutex, flags, engine, local>>

\* Client.DoFault: a nil config is rejected before OlxAPI.DoFault is called.
ClientDoFaultNil(t) ==
    /\ At(t, "nilcfg")
    /\ Return(t, "ErrNilConfig")
    /\ UNCHANGED <<op, cl, r, ncalls, msgOwn, pre, overlap, mutex, flags, engine, local>>

\* Client.DoSteppedEvent: cfg.fltOpt, cfg.runOpt and cfg.nTiers are read to
\* build the arguments of OlxAPI.DoSteppedEvent; reading a field through a nil
\* *SteppedEventConfig is a nil pointer dereference, a run-time panic.
ClientDoSteppedEventNil(t) ==
    /\ At(t, "se_nilcfg")
    /\ Return(t, "panic")
    /\ UNCHANGED <<op, cl, r, ncalls, msgOwn, pre, overlap, mutex, flags, engine, local>>

\* ---- resetFault: Lock; faultRun = false; faultPicked = false; deferred Unlock ----
\* o.Lock(); o.faultRun = false
RfRun(t) ==
    /\ At(t, "rf_run")
    /\ Lock(t)
    /\ faultRun' = [faultRun EXCEPT ![cl[t]] = FALSE]
    /\ Goto(t, "rf_picked")
    /\ UNCHANGED <<op, cl, r, ncalls, ret, msgOwn, pre, overlap, faultPicked, engine, local>>

RfPicked_NoClear(t) ==
    /\ At(t, "rf_picked")
    /\ Unlock(t)
    /\ Goto(t, IF ncalls[t] = 0 THEN "lock" ELSE "es_lock")
    /\ UNCHANGED <<op, cl, r, ncalls, ret, msgOwn, pre, overlap, faultRun, faultPicked, engine, local>>

\* o.faultPicked = false; o.Unlock().  The reset before the native call
\* continues with the gate's Lock, the reset after a failed call with ErrorString.
RfPicked(t) ==
    /\ At(t, "rf_picked")
    /\ faultPicked' = [faultPicked EXCEPT ![cl[t]] = FALSE]
    /\ Unlock(t)
    /\ Goto(t, IF ncalls[t] = 0 THEN "lock" ELSE "es_lock")
    /\ UNCHANGED <<op, cl, r, ncalls, ret, msgOwn, pre, overlap, faultRun, engine, local>>

\* ---- the gate: o.Lock(); r := proc.Call(...); o.Unlock() ----
\* proc.Call enters the engine.  Any native call invalidates the last-error
\* string; a fault run discards the previous fault results.
EnterEngine(t) ==
    /\ Goto(t, "incall")
    /\ ncalls' = [ncalls EXCEPT ![t] = @ + 1]
    /\ errOwner' = NoThread
    /\ engRun' = IF op[t] \in FaultOps THEN FALSE ELSE engRun
    /\ engPicked' = IF op[t] \in FaultOps THEN FALSE ELSE engPicked

\* o.Lock(); proc.Call(...) begins
GateCall(t) ==
    /\ At(t, "lock")
    /\ Lock(t)
    /\ EnterEngine(t)
    /\ UNCHANGED <<op, cl, r, ret, msgOwn, pre, overlap, flags, local>>

\* MakeOutageList: the second makeOutageList.Call, the lock still held.
SecondCall(t) ==
    /\ At(t, "call")
    /\ EnterEngine(t)
    /\ UNCHANGED <<op, cl, r, ret, msgOwn, pre, overlap, mutex, flags, local>>

\* Where the code goes after o.Unlock() when r == OLXAPIFailure.
FailurePc(o) ==
    IF o \in FaultOps THEN "rf_run"
    ELSE IF o = "PickFault" THEN "pf_clear"
    ELSE "es_lock"

\* What the engine can return to operation o: the get-next procedures also
\* return -1.
Results(o) ==
    IF o = "GetEquipment" THEN {OLXAPIFailure, OLXAPIOk, Sentinel}
    ELSE {OLXAPIFailure, OLXAPIOk}

\* o.Unlock(); if r == OLXAPIFailure { ... }; return nil.  GetEquipment
\* switches on int(r) and returns io.EOF for -1.
UnlockAndTest(t, res) ==
    /\ Unlock(t)
    /\ IF res = OLXAPIFailure
       THEN Goto(t, FailurePc(op[t])) /\ UNCHANGED ret
       ELSE IF res = Sentinel
       THEN Return(t, "EOF")
       ELSE Return(t, "nil")

\* proc.Call returns; the engine decides success or failure.  DoFault,
\* DoSteppedEvent and PickFault store a flag before they unlock; MakeOutageList
\* calls ErrorString on failure and calls the engine again on its first
\* success, both with the lock held; every other operation unlocks.
NativeReturn(t) ==
    /\ At(t, "incall")
    /\ \E res \in Results(op[t]) :
        /\ r' = [r EXCEPT ![t] = res]
        /\ errOwner' = IF res = OLXAPIFailure THEN t ELSE errOwner
        /\ engRun' = IF op[t] \in FaultOps THEN res = OLXAPIOk
                     ELSE IF op[t] \in ModelOps /\ res = OLXAPIOk THEN FALSE
                     ELSE engRun
        /\ engPicked' = IF op[t] \in FaultOps THEN FALSE
                        ELSE IF op[t] = "PickFault" /\ res = OLXAPIOk THEN TRUE
                        ELSE IF op[t] \in ModelOps /\ res = OLXAPIOk THEN FALSE
                        ELSE engPicked
        /\ IF op[t] \in FaultOps
           THEN Goto(t, "df_post") /\ UNCHANGED <<mutex, ret>>
           ELSE IF op[t] = "PickFault"
           THEN Goto(t, "pf_post") /\ UNCHANGED <<mutex, ret>>
           ELSE IF op[t] = "MakeOutageList" /\ res = OLXAPIFailure
           THEN Goto(t, "es_lock") /\ UNCHANGED <<mutex, ret>>
           ELSE IF op[t] = "MakeOutageList" /\ ncalls[t] = 1
           THEN Goto(t, "call") /\ UNCHANGED <<mutex, ret>>
           ELSE UnlockAndTest(t, res)
    /\ UNCHANGED <<op, cl, ncalls, msgOwn, pre, overlap, flags, local>>

\* DoFault / DoSteppedEvent: o.faultRun = true, whatever r is; o.Unlock()
DfPost(t) ==
    /\ At(t, "df_post")
    /\ faultRun' = [faultRun EXCEPT ![cl[t]] = TRUE]
    /\ UnlockAndTest(t, r[t])
    /\ UNCHANGED <<op, cl, r, ncalls, msgOwn, pre, overlap, faultPicked, engine, local>>

\* ---- PickFault ----
PfCheck_NoGate(t) ==
    /\ At(t, "pf_chk")
    /\ Goto(t, "lock")
    /\ UNCHANGED <<op, cl, r, ncalls, ret, msgOwn, pre, overlap, mutex, flags, engine, local>>

\* if !o.faultRun { return ErrFaultNotRun }: the flag is read without the lock.
PfCheck(t) ==
    /\ At(t, "pf_chk")
    /\ IF ~faultRun[cl[t]]
       THEN Return(t, "ErrFaultNotRun")
       ELSE Goto(t, "lock") /\ UNCHANGED ret
    /\ UNCHANGED <<op, cl, r, ncalls, msgOwn, pre, overlap, mutex, flags, engine, local>>

\* o.faultPicked = true, whatever r is; o.Unlock()
PfPost(t) ==
    /\ At(t, "pf_post")
    /\ faultPicked' = [faultPicked EXCEPT ![cl[t]] = TRUE]
    /\ UnlockAndTest(t, r[t])
    /\ UNCHANGED <<op, cl, r, ncalls, msgOwn, pre, overlap, faultRun, engine, local>>

PfClear_Keep(t) ==
    /\ At(t, "pf_clear")
    /\ Locked(t)
    /\ Goto(t, "es_lock")
    /\ UNCHANGED <<op, cl, r, ncalls, ret, msgOwn, pre, overlap, faultRun, faultPicked, engine, local>>

\* On failure: o.Lock(); o.faultPicked = false; o.Unlock()
PfClear(t) ==
    /\ At(t, "pf_clear")
    /\ Locked(t)
    /\ faultPicked' = [faultPicked EXCEPT ![cl[t]] = FALSE]
    /\ Goto(t, "es_lock")
    /\ UNCHANGED <<op, cl, r, ncalls, ret, msgOwn, pre, overlap, faultRun, engine, local>>

\* ---- GetSCVoltage / GetSCCurrent ----
\* switch { case !o.faultRun: ...; case !o.faultPicked: ... }: two reads
\* without the lock, faultRun first.
GsCheckRun(t) ==
    /\ At(t, "gs_chkrun")
    /\ IF ~faultRun[cl[t]]
       THEN Return(t, "ErrFaultNotRun")
       ELSE Goto(t, "gs_chkpicked") /\ UNCHANGED ret
    /\ UNCHANGED <<op, cl, r, ncalls, msgOwn, pre, overlap, mutex, flags, engine, local>>

GsCheckPicked_NoGate(t) ==
    /\ At(t, "gs_chkpicked")
    /\ Goto(t, "lock")
    /\ UNCHANGED <<op, cl, r, ncalls, ret, msgOwn, pre, overlap, mutex, flags, engine, local>>

GsCheckPicked(t) ==
    /\ At(t, "gs_chkpicked")
    /\ IF ~faultPicked[cl[t]]
       THEN Return(t, "ErrFaultNotPicked")
       ELSE Goto(t, "lock") /\ UNCHANGED ret
    /\ UNCHANGED <<op, cl, r, ncalls, msgOwn, pre, overlap, mutex, flags, engine, local>>

\* ---- ErrorString: o.Lock(); r := o.errorString.Call(); o.Unlock() ----
\* Called by every operation to build the ErrOlxAPI it returns.  The engine
\* hands out its last-error string: the caller's own message only if no
\* native call was made since the caller's failure.
EsCall_ClearsPicked(t) ==
    /\ At(t, "es_lock")
    /\ Lock(t)
    /\ Goto(t, "es_incall")
    /\ ncalls' = [ncalls EXCEPT ![t] = @ + 1]
    /\ msgOwn' = [msgOwn EXCEPT ![t] = (errOwner = t)]
    /\ errOwner' = IF errOwner = t THEN t ELSE NoThread
    /\ faultPicked' = [faultPicked EXCEPT ![cl[t]] = FALSE]
    /\ UNCHANGED <<op, cl, r, ret, pre, overlap, faultRun, engRun, engPicked, local>>

\* ErrorString: o.Lock(); r := o.errorString.Call(); the flags are not touched.
EsCall(t) ==
    /\ At(t, "es_lock")
    /\ Lock(t)
    /\ Goto(t, "es_incall")
    /\ ncalls' = [ncalls EXCEPT ![t] = @ + 1]
    /\ msgOwn' = [msgOwn EXCEPT ![t] = (errOwner = t)]
    /\ errOwner' = IF errOwner = t THEN t ELSE NoThread
    /\ UNCHANGED <<op, cl, r, ret, pre, overlap, flags, engRun, engPicked, local>>

\* errorString.Call returns; o.Unlock(); the operation returns ErrOlxAPI.
EsReturn(t) ==
    /\ At(t, "es_incall")
    /\ Unlock(t)
    /\ Return(t, "ErrOlxAPI")
    /\ UNCHANGED <<op, cl, r, ncalls, msgOwn, pre, overlap, flags, engine, local>>

\* ---- cursors: handleIterator, steppedEventIterator, faultIterator and the
\* ---- NextEquipment / NextFault types of iterator.go ----
\* One goroutine makes a cursor and calls its methods one after the other.
\* The engine numbers the items of the sequence 1..items; a get-next procedure
\* is handed the handle it returned last (0 before the first) and stores the
\* next one through the pointer; getSteppedEvent and pickFault are handed an
\* index.  The fault cursors are followed after a successful DoFault, so that
\* PickFault's faultRun check passes.
MaxLen == 3
MaxNext == 5

SFFirst == 1
SFNext == -2

\* Constructors returning a handleIterator.
HandleKinds ==
    {"NextEquipment", "NextBusEquipment", "NextEquipmentByTag", "NextRelay", "NextLogicScheme"}
Kinds ==
    HandleKinds \cup
        {"NextSteppedEvent", "NextFault", "iterator.NextEquipment", "iterator.NextFault"}

\* Return codes the engine can give a get-next procedure called with *hnd = h:
\* the next handle, the sentinel once the sequence is exhausted, or a failure.
NextCodes(h) ==
    IF h < items THEN {OLXAPIOk, OLXAPIFailure} ELSE {Sentinel, OLXAPIFailure}
\* Return codes of getSteppedEvent / pickFault called with index i.
IndexCodes(i) ==
    IF i \in 1..items THEN {OLXAPIOk, OLXAPIFailure} ELSE {OLXAPIFailure}

\* GetEquipment, GetBusEquipment, GetRelay, GetLogicScheme: switch int(r)
\* { case -1: return io.EOF; case OLXAPIFailure: return ErrOlxAPI{...} }
GetNextErr(c) ==
    IF c = Sentinel THEN "EOF"
    ELSE IF c = OLXAPIFailure THEN "ErrOlxAPI"
    ELSE "nil"
\* FindEquipmentByTag, GetSteppedEvent, PickFault: if r == OLXAPIFailure
\* { return ErrOlxAPI{...} }; return nil
FailureErr(c) ==
    IF c = OLXAPIFailure THEN "ErrOlxAPI" ELSE "nil"
\* The closure f of a handleIterator, by constructor.
WrapperErr(k, c) ==
    IF k = "NextEquipmentByTag" THEN FailureErr(c) ELSE GetNextErr(c)

\* Next() returns b to the caller.
NextReturns(b) ==
    /\ nNext' = nNext + 1
    /\ nTrue' = IF b THEN nTrue + 1 ELSE nTrue
    /\ lastRet' = IF b THEN "true" ELSE "false"
    /\ wasFalse' = (wasFalse \/ ~b)
    /\ afterReset' = FALSE

\* if done { return false }
ReturnDone ==
    /\ NextReturns(FALSE)
    /\ invoked' = FALSE
    /\ UNCHANGED <<hnd, done, err, code, arg, failed>>

\* The native procedure was called and returned c.
Invoked(c) ==
    /\ invoked' = TRUE
    /\ code' = c
    /\ failed' = (failed \/ c = OLXAPIFailure)

\* Client.NextEquipment, NextBusEquipment, ...: a new cursor over an engine
\* sequence of n items; every field has its zero value.
NewCursor ==
    \E k \in Kinds, n \in 0..MaxLen :
        /\ kind' = k
        /\ items' = n
        /\ hnd' = 0
        /\ done' = FALSE
        /\ err' = "nil"
        /\ nNext' = 0
        /\ nTrue' = 0
        /\ lastRet' = "none"
        /\ invoked' = FALSE
        /\ code' = OLXAPIOk
        /\ arg' = 0
        /\ failed' = FALSE
        /\ wasFalse' = FALSE
        /\ afterReset' = FALSE
        /\ UNCHANGED <<cursorFrame>>

HandleNext_NoDone ==
    /\ kind \in HandleKinds
    /\ nNext < MaxNext
    /\ IF done THEN ReturnDone
       ELSE \E c \in NextCodes(hnd) :
            /\ Invoked(c)
            /\ hnd' = IF c = OLXAPIOk THEN hnd + 1 ELSE hnd
            /\ NextReturns(WrapperErr(kind, c) = "nil")
            /\ UNCHANGED <<done, err, arg>>
    /\ UNCHANGED <<kind, items, cursorFrame>>

\* handleIterator.Next: if h.done { return false };
\* if err := h.f(&h.hnd); err != nil { h.done = true; return false }; return true
HandleNext ==
    /\ kind \in HandleKinds
    /\ nNext < MaxNext
    /\ IF done THEN ReturnDone
       ELSE \E c \in NextCodes(hnd) :
            /\ Invoked(c)
            /\ hnd' = IF c = OLXAPIOk THEN hnd + 1 ELSE hnd
            /\ done' = (WrapperErr(kind, c) # "nil")
            /\ NextReturns(WrapperErr(kind, c) = "nil")
            /\ UNCHANGED <<err, arg>>
    /\ UNCHANGED <<kind, items, cursorFrame>>

\* steppedEventIterator.Next with f = { *step++; c.GetSteppedEvent(*step) }
SteppedEventNext ==
    /\ kind = "NextSteppedEvent"
    /\ nNext < MaxNext
    /\ IF done THEN ReturnDone
       ELSE \E c \in IndexCodes(hnd + 1) :
            /\ Invoked(c)
            /\ hnd' = hnd + 1
            /\ arg' = hnd + 1
            /\ done' = (FailureErr(c) # "nil")
            /\ NextReturns(FailureErr(c) = "nil")
            /\ UNCHANGED err
    /\ UNCHANGED <<kind, items, cursorFrame>>

\* faultIterator.Next with f = { *i++; c.olxAPI.PickFault(*i, tiers) }
FaultNext_NextCode ==
    /\ kind = "NextFault"
    /\ nNext < MaxNext
    /\ IF done THEN ReturnDone
       ELSE \E c \in IndexCodes(hnd + 1) :
            /\ Invoked(c)
            /\ hnd' = hnd + 1
            /\ arg' = IF hnd = 0 THEN SFFirst ELSE SFNext
            /\ done' = (FailureErr(c) # "nil")
            /\ NextReturns(FailureErr(c) = "nil")
            /\ UNCHANGED err
    /\ UNCHANGED <<kind, items, cursorFrame>>

FaultNext_NoIncrement ==
    /\ kind = "NextFault"
    /\ nNext < MaxNext
    /\ IF done THEN ReturnDone
       ELSE \E c \in IndexCodes(hnd) :
            /\ Invoked(c)
            /\ arg' = hnd
            /\ done' = (FailureErr(c) # "nil")
            /\ NextReturns(FailureErr(c) = "nil")
            /\ UNCHANGED <<hnd, err>>
    /\ UNCHANGED <<kind, items, cursorFrame>>

FaultNext ==
    /\ kind = "NextFault"
    /\ nNext < MaxNext
    /\ IF done THEN ReturnDone
       ELSE \E c \in IndexCodes(hnd + 1) :
            /\ Invoked(c)
            /\ hnd' = hnd + 1
            /\ arg' = hnd + 1
            /\ done' = (FailureErr(c) # "nil")
            /\ NextReturns(FailureErr(c) = "nil")
            /\ UNCHANGED err
    /\ UNCHANGED <<kind, items, cursorFrame>>

\* iterator.go, NextEquipment.Next: on an error done is set; io.EOF returns
\* false; any other error is stored in n.err and the method returns true.
OldEquipmentNext ==
    /\ kind = "iterator.NextEquipment"
    /\ nNext < MaxNext
    /\ IF done THEN ReturnDone
       ELSE \E c \in NextCodes(hnd) :
            /\ Invoked(c)
            /\ hnd' = IF c = OLXAPIOk THEN hnd + 1 ELSE hnd
            /\ done' = (GetNextErr(c) # "nil")
            /\ err' = IF GetNextErr(c) = "ErrOlxAPI" THEN "ErrOlxAPI" ELSE err
            /\ NextReturns(GetNextErr(c) # "EOF")
            /\ UNCHANGED arg
    /\ UNCHANGED <<kind, items, cursorFrame>>

\* iterator.go, NextFault.Next: indx becomes SFFirst if it is 0, else indx+1;
\* an error of PickFault sets done and n.err and returns false.
OldFaultNext ==
    /\ kind = "iterator.NextFault"
    /\ nNext < MaxNext
    /\ IF done THEN ReturnDone
       ELSE LET i == IF hnd = 0 THEN SFFirst ELSE hnd + 1 IN
            \E c \in IndexCodes(i) :
                /\ Invoked(c)
                /\ hnd' = i
                /\ arg' = i
                /\ done' = (FailureErr(c) # "nil")
                /\ err' = FailureErr(c)
                /\ NextReturns(FailureErr(c) = "nil")
    /\ UNCHANGED <<kind, items, cursorFrame>>

\* iterator.go, NextFault.Reset: n.indx = 0
OldFaultReset ==
    /\ kind = "iterator.NextFault"
    /\ nNext < MaxNext
    /\ hnd' = 0
    /\ afterReset' = TRUE
    /\ UNCHANGED <<kind, items, done, err, nNext, nTrue, lastRet, invoked, code, arg, failed, wasFalse, cursorFrame>>

\* ---- Client.GetData and Data.Scan ----
\* One goroutine requests tokens of an object and scans the result.  A token
\* is followed by its kind (token / 100): a string or an integer field, an
\* integer or a double array, whose length getData looks up in ArrayLengths
\* under the equipment type, or a kind getData has no case for.
MaxTokens == 3
MaxDest == 4

TokenKinds == {"VTSTRING", "VTINTEGER", "VTARRAYINT", "VTARRAYDOUBLE", "other"}
\* The kinds whose buffer length comes from ArrayLengths[eqType][token].
ArrayKinds == {"VTARRAYINT", "VTARRAYDOUBLE"}

RECURSIVE SeqsUpTo(_)
\* The sequences of token kinds of length at most n.
SeqsUpTo(n) ==
    IF n = 0 THEN {<<>>}
    ELSE LET shorter == SeqsUpTo(n - 1) IN
         shorter \cup {Append(q, k) : q \in {x \in shorter : Len(x) = n - 1}, k \in TokenKinds}

\* The error getData returns for a token of kind k when the ArrayLengths
\* lookup gives ok and the native getData returns code c.  The error of
\* EquipmentType is dropped (eqType, _ := ...).
GetDataErr(k, ok, c) ==
    IF k = "other" THEN "ErrTokenType"
    ELSE IF k \in ArrayKinds /\ ~ok THEN "ErrArrayLength"
    ELSE IF c = OLXAPIFailure THEN "ErrOlxAPI"
    ELSE "nil"

\* getData reaches c.olxAPI.GetData for a token of kind k.
CallsGetData(k, ok) ==
    k # "other" /\ (k \in ArrayKinds => ok)

\* The first token whose getData returned an error, 0 if none did.
FirstFailed ==
    IF \E i \in 1..Len(tokErr) : tokErr[i] # "nil"
    THEN CHOOSE i \in 1..Len(tokErr) :
            /\ tokErr[i] # "nil"
            /\ \A j \in 1..(i - 1) : tokErr[j] = "nil"
    ELSE 0

\* Client.GetData(hnd, tokens...): var data = Data{tokens: tokens}.  Each
\* call makes a Data value of its own, so one call is followed.
GetDataCall ==
    /\ tokens = <<>> /\ scanRet = "none"
    /\ \E toks \in SeqsUpTo(MaxTokens) : tokens' = toks
    /\ pos' = 0
    /\ tokErr' = <<>>
    /\ derr' = 0
    /\ ddata' = <<>>
    /\ hasLen' = TRUE
    /\ natFailed' = FALSE
    /\ nEq' = 0
    /\ nGet' = 0
    /\ ndest' = 0
    /\ scanRet' = "none"
    /\ written' = 0
    /\ UNCHANGED <<dataFrame>>

GetDataToken_ZeroLength ==
    /\ pos < Len(tokens)
    /\ \E ce \in {OLXAPIFailure, OLXAPIOk}, cg \in {OLXAPIFailure, OLXAPIOk}, ok \in BOOLEAN :
        LET k == tokens[pos + 1]
            calls == k # "other"
            e == GetDataErr(k, TRUE, cg) IN
        /\ calls \/ cg = OLXAPIOk
        /\ (k \in ArrayKinds) \/ ok
        /\ hasLen' = ok
        /\ nEq' = nEq + 1
        /\ nGet' = IF calls THEN nGet + 1 ELSE nGet
        /\ natFailed' = (natFailed \/ ce = OLXAPIFailure \/ (calls /\ cg = OLXAPIFailure))
        /\ tokErr' = Append(tokErr, e)
        /\ derr' = IF e # "nil" THEN pos + 1 ELSE derr
        /\ ddata' = Append(ddata, IF e = "nil" THEN "value" ELSE "nil")
    /\ pos' = pos + 1
    /\ UNCHANGED <<tokens, ndest, scanRet, written, dataFrame>>

\* One iteration of GetData's loop: d, err := c.getData(hnd, tkn);
\* if err != nil { data.err = err }; data.data = append(data.data, d).
\* getData calls EquipmentType and drops its error; for an array kind it looks
\* the length up and returns an error if !ok; then it calls OlxAPI.GetData,
\* unless the token kind has no case.
GetDataToken ==
    /\ pos < Len(tokens)
    /\ \E ce \in {OLXAPIFailure, OLXAPIOk}, cg \in {OLXAPIFailure, OLXAPIOk}, ok \in BOOLEAN :
        LET k == tokens[pos + 1]
            calls == CallsGetData(k, ok)
            e == GetDataErr(k, ok, cg) IN
        /\ calls \/ cg = OLXAPIOk
        /\ (k \in ArrayKinds) \/ ok
        /\ hasLen' = ok
        /\ nEq' = nEq + 1
        /\ nGet' = IF calls THEN nGet + 1 ELSE nGet
        /\ natFailed' = (natFailed \/ ce = OLXAPIFailure \/ (calls /\ cg = OLXAPIFailure))
        /\ tokErr' = Append(tokErr, e)
        /\ derr' = IF e # "nil" THEN pos + 1 ELSE derr
        /\ ddata' = Append(ddata, IF e = "nil" THEN "value" ELSE "nil")
    /\ pos' = pos + 1
    /\ UNCHANGED <<tokens, ndest, scanRet, written, dataFrame>>

\* Data.Scan(dest...): if d.err != nil { return d.err };
\* if len(d.tokens) != len(d.data) { return error };
\* for i, p := range dest { convertAssignData(p, d.data[i]) }; return nil.
\* d.data[i] panics for i >= len(d.data).  Each destination has the type of
\* its value.
Scan ==
    /\ pos = Len(tokens)
    /\ scanRet = "none"
    /\ \E k \in 0..MaxDest :
        /\ ndest' = k
        /\ IF derr # 0 \/ Len(tokens) # Len(ddata)
           THEN scanRet' = "err" /\ written' = 0
           ELSE IF k > Len(ddata)
           THEN scanRet' = "panic" /\ written' = Len(ddata)
           ELSE scanRet' = "nil" /\ written' = k
    /\ UNCHANGED <<tokens, pos, tokErr, derr, ddata, hasLen, natFailed, nEq, nGet, dataFrame>>

\* ---- the conversion functions ----
\* getData's switch on token / 100: the six kinds it decodes.
ValueKinds ==
    {"VTSTRING", "VTDOUBLE", "VTINTEGER", "VTARRAYSTRING", "VTARRAYINT", "VTARRAYDOUBLE"}

\* The Go type of the value getData returns for a token of kind k.  The
\* integer array is built with make([]int32, ...) and returned as it is.
DecodedType(k) ==
    IF k = "VTSTRING" THEN "string"
    ELSE IF k = "VTDOUBLE" THEN "float64"
    ELSE IF k = "VTINTEGER" THEN "int"
    ELSE IF k = "VTARRAYSTRING" THEN "[]string"
    ELSE IF k = "VTARRAYINT" THEN "[]int32"
    ELSE "[]float64"

\* The destination type Scan is documented to accept for a token of kind k.
MatchingDest(k) ==
    IF k = "VTSTRING" THEN "*string"
    ELSE IF k = "VTDOUBLE" THEN "*float64"
    ELSE IF k = "VTINTEGER" THEN "*int"
    ELSE IF k = "VTARRAYSTRING" THEN "*[]string"
    ELSE IF k = "VTARRAYINT" THEN "*[]int"
    ELSE "*[]float64"

\* Destination types a caller may pass to Scan.
DestTypes ==
    {"*string", "*float64", "*int", "*[]string", "*[]int", "*[]float64",
     "*int32", "*[]int32", "*float32", "string"}

\* The source types convertAssignData has a case for, each with the one
\* destination type of its inner switch.
AssignCases ==
    {<<"string", "*string">>, <<"float64", "*float64">>, <<"int", "*int">>,
     <<"[]string", "*[]string">>, <<"[]float64", "*[]float64">>, <<"[]int", "*[]int">>}

\* convertAssignData(dest, src): nil when src and dest match a case and dest
\* is not nil; an error for a nil dest and for every other pair.
convertAssignData(dest, isNil, src) ==
    IF <<src, dest>> \in AssignCases /\ ~isNil THEN "nil" ELSE "err"

\* The functions are applied one at a time, each to fresh arguments: the
\* arguments and results of the others are dropped.
DropScan ==
    /\ cvKind' = "none"
    /\ cvDest' = "none"
    /\ cvNil' = FALSE
    /\ cvRet' = "none"
DropStrings ==
    /\ sFn' = "none"
    /\ sIn' = <<>>
    /\ sOut' = <<>>
    /\ sRet' = "none"
    /\ sCall' = FALSE
DropFloat ==
    /\ fIn' = <<>>
    /\ fWords' = <<>>

\* Scan of one value: the value getData decoded for a token of kind k is
\* assigned to a destination of type d.  Each conversion is a function of its
\* input alone and is applied to one input, nothing converted before.
ScanValue ==
    \E k \in ValueKinds, d \in DestTypes, n \in BOOLEAN :
        /\ NoConv
        /\ cvKind' = k
        /\ cvDest' = d
        /\ cvNil' = n
        /\ cvRet' = convertAssignData(d, n, DecodedType(k))
        /\ DropStrings
        /\ DropFloat
        /\ UNCHANGED convFrame

\* ---- strings: utils.go ----
MaxStr == 3
MaxMag == 2
MaxOpts == 3

NUL == 0
SPACE == 32
COMMA == 44
TAB == 9
\* The bytes strings and buffers are made of: NUL, the tab and a letter.
Bytes == {NUL, TAB, 97}

RECURSIVE BytesUpTo(_)
\* The byte sequences of length at most n.
BytesUpTo(n) ==
    IF n = 0 THEN {<<>>}
    ELSE LET shorter == BytesUpTo(n - 1) IN
         shorter \cup {Append(q, b) : q \in {x \in shorter : Len(x) = n - 1}, b \in Bytes}

HasNUL(b) == \E i \in 1..Len(b) : b[i] = NUL

UTF8NullFromString_NoCheck(str) ==
    <<"nil", str \o <<NUL>>>>

\* UTF8NullFromString(s): an error if some s[i] == 0, else []byte(s + "\x00").
\* The result is <<error, bytes>>.
UTF8NullFromString(str) ==
    IF HasNUL(str) THEN <<"err", <<>>>> ELSE <<"nil", str \o <<NUL>>>>

\* UTF8NullToString(s): the bytes before the first 0, all of s if it has none.
UTF8NullToString(b) ==
    IF HasNUL(b)
    THEN LET i == CHOOSE j \in 1..Len(b) :
                    b[j] = NUL /\ \A k \in 1..(j - 1) : b[k] # NUL
         IN SubSeq(b, 1, i - 1)
    ELSE b

\* A string is encoded for the engine.
Encode ==
    \E str \in BytesUpTo(MaxStr) :
        /\ NoConv
        /\ sFn' = "UTF8NullFromString"
        /\ sIn' = str
        /\ sRet' = UTF8NullFromString(str)[1]
        /\ sOut' = <<UTF8NullFromString(str)[2]>>
        /\ sCall' = FALSE
        /\ DropScan
        /\ DropFloat
        /\ UNCHANGED convFrame

\* ---- operations that send a string of the caller to the engine ----
\* b, err := UTF8NullFromString(s); if err != nil { return ... }
CheckedOps ==
    {"SaveDataFile", "LoadDataFile", "ReadChangeFile", "FindBusByName",
     "FindEquipmentByTag", "SetObjTags", "SetObjMemo", "Run1LPFCommand"}

\* b, _ := UTF8NullFromString(s)
DroppedOps == {"SetData", "BoundaryEquivalent", "FindObj1LPF"}

\* var fieldBuf = make([]byte, 16); copy(fieldBuf, field)
CopiedOps == {"GetObjUDF", "SetObjUDF"}

StringOps == CheckedOps \cup DroppedOps \cup CopiedOps

\* MXUDFNAME, the size of the buffer of a user defined field name
MXUDFNAME == 16

\* make([]byte, n); copy(buf, str)
CopyInto(n, str) ==
    [i \in 1..n |-> IF i <= Len(str) THEN str[i] ELSE NUL]

\* the error an operation returns for the code c of its native procedure
NativeErr(c) == IF c = OLXAPIFailure THEN "ErrOlxAPI" ELSE "nil"

\* One operation is called with the string str.  &b[0] on the nil slice of a
\* failed encoding is an index out of range: the operation panics before it
\* reaches the native procedure.
SendString ==
    \E o \in StringOps, str \in BytesUpTo(MaxStr), c \in {OLXAPIOk, OLXAPIFailure} :
        LET enc == UTF8NullFromString(str) IN
        /\ NoConv
        /\ sFn' = o
        /\ sIn' = str
        /\ IF o \in CheckedOps /\ enc[1] # "nil"
           THEN sRet' = "err" /\ sCall' = FALSE /\ sOut' = <<>>
           ELSE IF o \in CopiedOps
           THEN /\ sRet' = NativeErr(c)
                /\ sCall' = TRUE
                /\ sOut' = <<CopyInto(MXUDFNAME, str)>>
           ELSE IF Len(enc[2]) = 0
           THEN sRet' = "panic" /\ sCall' = FALSE /\ sOut' = <<>>
           ELSE /\ sRet' = NativeErr(c)
                /\ sCall' = TRUE
                /\ sOut' = <<enc[2]>>
        /\ DropScan
        /\ DropFloat
        /\ UNCHANGED convFrame

\* ---- strings decoded from a buffer the engine has filled ----
\* getData of a VTSTRING token, getData of a VTARRAYSTRING token, VersionInfo
DecodeOps == {"VTSTRING", "VTARRAYSTRING", "VersionInfo"}

\* the size of the buffer handed to the engine, in the units of the model
BufLen == MaxStr + 1

\* buf := make([]byte, n), then the engine writes a NUL-terminated string
NativeBuffers ==
    {CopyInto(BufLen, str) : str \in {x \in BytesUpTo(MaxStr) : ~HasNUL(x)}}

RECURSIVE Split(_, _)
\* strings.Split(s, sep) for a separator of one byte
Split(b, sep) ==
    IF \E i \in 1..Len(b) : b[i] = sep
    THEN LET i == CHOOSE j \in 1..Len(b) :
                    b[j] = sep /\ \A k \in 1..(j - 1) : b[k] # sep
         IN  <<SubSeq(b, 1, i - 1)>> \o Split(SubSeq(b, i + 1, Len(b)), sep)
    ELSE <<b>>

\* the strings an operation returns for the buffer buf
Decoded(o, buf) ==
    IF o = "VTSTRING" THEN <<UTF8NullToString(buf)>>
    ELSE IF o = "VTARRAYSTRING" THEN Split(buf, TAB)
    ELSE <<buf>>

Decode ==
    \E o \in DecodeOps, buf \in NativeBuffers :
        /\ NoConv
        /\ sFn' = o
        /\ sIn' = buf
        /\ sOut' = Decoded(o, buf)
        /\ sRet' = "nil"
        /\ sCall' = TRUE
        /\ DropScan
        /\ DropFloat
        /\ UNCHANGED convFrame

\* ---- float64ToUint32 (utils.go) ----
\* A double is <<sign, exponent, m3, m2, m1, m0>>: one sign bit, eleven exponent
\* bits and the 52 mantissa bits as a 4-bit limb m3 and three 16-bit limbs.
\* 64-bit and 32-bit values are held as 16-bit limbs, least significant first.
Doubles ==
    {<<s, e, m3, m2, m1, m0>> :
        s \in {0, 1}, e \in {0, 1, 1023, 2047}, m3 \in {0, 8, 15},
        m2 \in {0, 65535}, m1 \in {0, 65535}, m0 \in {0, 1, 65535}}

\* math.Float64bits(f): the IEEE 754 bit pattern, as four limbs
Float64bits(f) ==
    <<f[6], f[5], f[4], f[1] * 32768 + f[2] * 16 + f[3]>>

MemoryBytes_BigEndian(bits) ==
    [i \in 1..8 |->
        IF i % 2 = 1 THEN bits[4 - (i \div 2)] \div 256
        ELSE bits[5 - (i \div 2)] % 256]

\* &f64: the eight bytes of the uint64 in memory; windows/386 is little-endian
MemoryBytes(bits) ==
    [i \in 1..8 |->
        IF i % 2 = 1 THEN bits[(i + 1) \div 2] % 256
        ELSE bits[i \div 2] \div 256]

\* element k of the [2]uint32 that lies over the same eight bytes
Uint32At(mem, k) ==
    <<mem[4 * k + 1] + 256 * mem[4 * k + 2], mem[4 * k + 3] + 256 * mem[4 * k + 4]>>

\* f64 := math.Float64bits(f); return *(*[2]uint32)(unsafe.Pointer(&f64))
float64ToUint32(f) ==
    LET mem == MemoryBytes(Float64bits(f))
    IN  <<Uint32At(mem, 0), Uint32At(mem, 1)>>

SplitDouble ==
    \E f \in Doubles :
        /\ NoConv
        /\ fIn' = f
        /\ fWords' = float64ToUint32(f)
        /\ DropScan
        /\ DropStrings
        /\ UNCHANGED convFrame

\* ---- OlxAPI.Release: o.Lock(); defer o.Unlock(); return o.dll.Release() ----
\* o.Lock(); dll.Release() begins to unload the library
ReleaseLock(t) ==
    /\ At(t, "rl_lock")
    /\ Lock(t)
    /\ Goto(t, "rl_unload")
    /\ UNCHANGED <<op, cl, r, ncalls, ret, msgOwn, pre, overlap, flags, engine, local>>

\* the library is unloaded; the deferred o.Unlock(); return
ReleaseUnload(t) ==
    /\ At(t, "rl_unload")
    /\ released' = [released EXCEPT ![cl[t]] = TRUE]
    /\ Unlock(t)
    /\ Return(t, "nil")
    /\ UNCHANGED <<op, cl, r, ncalls, msgOwn, pre, overlap, flags, engine, libFrame>>

\* ---- Phasor, PhaseToSeq, SeqToPhase ----
\* A Phasor (complex128) is <<x, y, d>>, the number (x + y*w)/d with
\* w = cmplx.Rect(1, 120 degrees), so that w*w = -1 - w; its real part is
\* (2x - y)/(2d) and its imaginary part y*sqrt(3)/(2d).  Arithmetic is exact
\* up to the largest finite float64, MaxMag in the units of the model: a
\* result whose real or imaginary part is larger is not finite (an infinity
\* or a NaN), written NotFinite, and stays so in every later operation.
NotFinite == <<0, 0, 0>>

Finite(p) == p[3] # 0

\* float64 arithmetic on the parts: out of range is +-Inf (then NaN)
Float(x, y, d) ==
    IF /\ (2 * x - y) <= 2 * MaxMag * d
       /\ (y - 2 * x) <= 2 * MaxMag * d
       /\ 3 * y * y <= 4 * MaxMag * MaxMag * d * d
    THEN <<x, y, d>>
    ELSE NotFinite

\* p + q on complex128
Add(p, q) ==
    IF ~Finite(p) \/ ~Finite(q) THEN NotFinite
    ELSE LET d == IF p[3] >= q[3] THEN p[3] ELSE q[3]
         IN  Float(p[1] * (d \div p[3]) + q[1] * (d \div q[3]),
                   p[2] * (d \div p[3]) + q[2] * (d \div q[3]), d)

\* p * q on complex128
Mul(p, q) ==
    IF ~Finite(p) \/ ~Finite(q) THEN NotFinite
    ELSE Float(p[1] * q[1] - p[2] * q[2],
               p[1] * q[2] + p[2] * q[1] - p[2] * q[2], p[3] * q[3])

\* a1 = NewPhasor(1, 120), a2 = NewPhasor(1, 240)
a1 == <<0, 1, 1>>
a2 == <<-1, -1, 1>>

\* the constant (1.0 / 3.0)
OneThird == <<1, 0, 3>>

PhaseToSeq(a, b, c) ==
    <<Mul(OneThird, Add(Add(a, b), c)),
      Mul(OneThird, Add(Add(a, Mul(a1, b)), Mul(a2, c))),
      Mul(OneThird, Add(Add(a, Mul(a2, b)), Mul(a1, c)))>>

SeqToPhase_Swapped(seq0, seq1, seq2) ==
    <<Add(Add(seq0, seq1), seq2),
      Add(Add(seq0, Mul(a1, seq1)), Mul(a2, seq2)),
      Add(Add(seq0, Mul(a2, seq1)), Mul(a1, seq2))>>

SeqToPhase(seq0, seq1, seq2) ==
    <<Add(Add(seq0, seq1), seq2),
      Add(Add(seq0, Mul(a2, seq1)), Mul(a1, seq2)),
      Add(Add(seq0, Mul(a1, seq1)), Mul(a2, seq2))>>

\* the values of type Phasor: the finite ones of the model and a NaN
Phasors ==
    {ph \in {<<x, y, 1>> : x \in -(2 * MaxMag)..(2 * MaxMag),
                           y \in -(2 * MaxMag)..(2 * MaxMag)} :
        Float(ph[1], ph[2], 1) # NotFinite}
    \cup {NotFinite}

\* equal as complex numbers; a NaN equals nothing
SamePhasor(p, q) ==
    /\ Finite(p)
    /\ Finite(q)
    /\ p[1] * q[3] = q[1] * p[3]
    /\ p[2] * q[3] = q[2] * p[3]

\* v0, v1, v2 := PhaseToSeq(va, vb, vc)
PhaseToSeqCall ==
    /\ phIn = <<>>
    /\ \E a \in Phasors, b \in Phasors, c \in Phasors :
           /\ phIn' = <<a, b, c>>
           /\ phSeq' = PhaseToSeq(a, b, c)
    /\ UNCHANGED <<phOut, phasorFrame>>

\* vaCalc, vbCalc, vcCalc := SeqToPhase(v0, v1, v2)
SeqToPhaseCall ==
    /\ phSeq # <<>>
    /\ phOut = <<>>
    /\ phOut' = SeqToPhase(phSeq[1], phSeq[2], phSeq[3])
    /\ UNCHANGED <<phIn, phSeq, phasorFrame>>

\* ---- FaultConfig and its options (fault.go, part_001) ----
\* the fault connection codes of fault.go
Conns == {"ABC", "BCG", "CAG", "ABG", "AG", "BG", "CG", "BC", "CA", "AB"}

\* the fault connections of part_001
OldConns == {"ABC", "ABG", "AG", "AB"}

\* the slot of cfg.fltConn a connection is written to
ConnIdx(c) ==
    IF c = "ABC" THEN 0
    ELSE IF c \in {"BCG", "CAG", "ABG"} THEN 1
    ELSE IF c \in {"AG", "BG", "CG"} THEN 2
    ELSE 3

\* FltConn.applyToFaultConfig: the value written to that slot
ConnCode(c) ==
    IF c \in {"ABC", "BCG", "AG", "BC"} THEN 1
    ELSE IF c \in {"CAG", "BG", "CA"} THEN 2
    ELSE 3

\* for _, c := range conn { c.applyToFaultConfig(cfg) }
RECURSIVE applyToFaultConfig(_, _)
applyToFaultConfig(conn, fc) ==
    IF conn = <<>> THEN fc
    ELSE applyToFaultConfig(Tail(conn),
                            [fc EXCEPT ![ConnIdx(Head(conn))] = ConnCode(Head(conn))])

\* part_001: var fltConn [4]int; for _, c := range conn { fltConn[c.idx] = c.code }
oldFltConn(conn) ==
    [i \in 0..3 |-> IF \E k \in 1..Len(conn) : ConnIdx(conn[k]) = i THEN 1 ELSE 0]

\* the argument lists of a FaultConn option: one or two connections
ConnLists(cs) ==
    {<<a>> : a \in cs} \cup {<<a, b>> : a \in cs, b \in cs}

\* the connections a FaultConfig asks the engine for
Selected ==
    IF build = "fault.go"
    THEN {c \in Conns : fltConn[ConnIdx(c)] = ConnCode(c)}
    ELSE {c \in OldConns : fltConn[ConnIdx(c)] = 1}

\* cfg := &FaultConfig{outageList: make([]int, 1)}
NewFaultConfig ==
    /\ build' \in {"fault.go", "part_001"}
    /\ fltConn' = [i \in 0..3 |-> 0]
    /\ fltOpt' = [i \in 0..14 |-> 0]
    /\ outageList' = <<0>>
    /\ outageOpt' = [i \in 0..3 |-> 0]
    /\ named' = {}
    /\ lastConn' = <<>>
    /\ params' = {}
    /\ nOpts' = 0
    /\ UNCHANGED configFrame

\* FaultConn(conn...)(cfg)
FaultConn ==
    /\ nOpts < MaxOpts
    /\ \E conn \in ConnLists(IF build = "fault.go" THEN Conns ELSE OldConns) :
        /\ fltConn' = IF build = "fault.go"
                      THEN applyToFaultConfig(conn, fltConn)
                      ELSE oldFltConn(conn)
        /\ named' = named \cup {conn[k] : k \in 1..Len(conn)}
        /\ lastConn' = conn
    /\ nOpts' = nOpts + 1
    /\ UNCHANGED <<build, fltOpt, outageList, outageOpt, params, configFrame>>

\* ---- the FaultOptions that select the fault location ----
PlainLocations == {"FaultCloseIn", "FaultCloseInEndOpen", "FaultRemoteBus", "FaultLineEnd"}
OutageLocations ==
    {"FaultCloseInOutage", "FaultCloseInEndOpenOutage", "FaultRemoteBusOutage",
     "FaultLineEndOutage", "FaultIntermediateOutage", "FaultIntermediateEndOpenOutage"}
PercentLocations ==
    {"FaultIntermediate", "FaultIntermediateOutage", "FaultIntermediateEndOpen",
     "FaultIntermediateEndOpenOutage"}
Locations == PlainLocations \cup OutageLocations \cup PercentLocations \cup {"FaultIntermediateAuto"}

\* the percent, and the <<step, from, to>>, the callers give
Percents == {25, 50}
AutoRanges == {<<5, 10, 90>>, <<10, 25, 75>>}
\* the outageList and the otgOpt the callers give
OutageLists == {<<7>>}
OutageOptions == {"OutageOptionOnePer", "OutageOptionTwoPer", "OutageOptionAll", "OutageOptionBF"}

\* The slot of cfg.fltOpt a location option with one slot assigns.
LocationSlot(o) ==
    CASE o = "FaultCloseIn" -> 0
      [] o = "FaultCloseInOutage" -> 1
      [] o = "FaultCloseInEndOpen" -> 2
      [] o = "FaultCloseInEndOpenOutage" -> 3
      [] o = "FaultRemoteBus" -> 4
      [] o = "FaultRemoteBusOutage" -> 5
      [] o = "FaultLineEnd" -> 6
      [] o = "FaultLineEndOutage" -> 7
      [] o = "FaultIntermediate" -> 8
      [] o = "FaultIntermediateOutage" -> 9
      [] o = "FaultIntermediateEndOpen" -> 10
      [] o = "FaultIntermediateEndOpenOutage" -> 11

\* The assignments to cfg.fltOpt option o makes, as <<slot, value>>: percent
\* for the options that take one, <<step, from, to>> for FaultIntermediateAuto.
LocationWrites(o, percent, auto) ==
    IF o = "FaultIntermediateAuto"
    THEN {<<9, auto[1]>>, <<12, auto[2]>>, <<13, auto[3]>>}
    ELSE IF o \in PercentLocations THEN {<<LocationSlot(o), percent>>}
    ELSE {<<LocationSlot(o), 1>>}

\* withOutage: var outageOptions [4]int and the switch on otgOpt
outageOptions(otgOpt) ==
    [i \in 0..3 |->
        IF \/ i = 0 /\ otgOpt = "OutageOptionOnePer"
           \/ i = 1 /\ otgOpt = "OutageOptionTwoPer"
           \/ i = 2 /\ otgOpt = "OutageOptionAll"
           \/ i = 3 /\ otgOpt = "OutageOptionBF"
        THEN 1 ELSE 0]

\* A location option is applied to the config: its assignments to cfg.fltOpt
\* and, for an option made by withOutage, cfg.outageList and cfg.outageOpt.
\* params keeps, per option, the parameters of its last application.
FaultLocation ==
    /\ nOpts < MaxOpts
    /\ \E o \in Locations, percent \in Percents, auto \in AutoRanges,
          list \in OutageLists, otgOpt \in OutageOptions :
        LET w == LocationWrites(o, percent, auto) IN
        /\ o \notin PercentLocations => percent = 25
        /\ o # "FaultIntermediateAuto" => auto = <<5, 10, 90>>
        /\ o \notin OutageLocations => otgOpt = "OutageOptionOnePer"
        /\ fltOpt' = [i \in 0..14 |->
                IF \E p \in w : p[1] = i THEN (CHOOSE p \in w : p[1] = i)[2]
                ELSE fltOpt[i]]
        /\ params' = {p \in params : p[1] # o} \cup {<<o, p[1], p[2]>> : p \in w}
        /\ IF o \in OutageLocations
           THEN outageList' = list /\ outageOpt' = outageOptions(otgOpt)
           ELSE UNCHANGED <<outageList, outageOpt>>
    /\ nOpts' = nOpts + 1
    /\ UNCHANGED <<build, fltConn, named, lastConn, configFrame>>

\* ---- GetLine ----
\* the impedances of a line of the model, and the handles of its relay groups
\* (0: the line has none and the engine reports an error for the token)
Ohms == {1, 2, 3}
RelayHnds == {0, 31}

\* The engine's model gets a line, or another equipment, at the handle.
LineModel ==
    /\ lnType' \in {"TCLine", "TCBus"}
    /\ \E rr \in Ohms, x \in Ohms, r0 \in Ohms, x0 \in Ohms, g \in RelayHnds :
        lnEng' = [k \in AllLineTokens |->
            CASE k = "LNdR" -> rr
              [] k = "LNdX" -> x
              [] k = "LNdR0" -> r0
              [] k = "LNdX0" -> x0
              [] k \in Range(RelayTokens) -> g
              [] OTHER -> 10 + (CHOOSE i \in 1..Len(LineTokens) : LineTokens[i] = k)]
    /\ lnLine' = [f \in LineFields |-> 0]
    /\ lnRet' = "none"
    /\ UNCHANGED linesFrame

\* Data.Scan(dest...): the value of the i-th token requested goes to the i-th
\* destination.
ScanInto(toks, dests, eng) ==
    [f \in Range(dests) |-> eng[toks[CHOOSE i \in 1..Len(dests) : dests[i] = f]]]

\* c.getLine(hnd): the equipment type check, GetData and Scan of the line's
\* tokens, then GetData and Scan of the relay group handles, whose error is
\* ignored (the destinations keep their zero value).  bus1Hnd and bus2Hnd
\* stand for the Bus objects getBus makes of them.
GetLine ==
    /\ lnRet = "none"
    /\ IF lnType # "TCLine"
       THEN /\ lnRet' = "err"
            /\ UNCHANGED lnLine
       ELSE /\ lnRet' = "nil"
            /\ lnLine' = [f \in LineFields |->
                    IF f \in Range(LineDests)
                    THEN ScanInto(LineTokens, LineDests, lnEng)[f]
                    ELSE ScanInto(RelayTokens, RelayDests, lnEng)[f]]
    /\ UNCHANGED <<lnType, lnEng, linesFrame>>

\* ---- SetData, PostData, GetData of an integer field ----
\* The build is constrained to windows && 386: int has 32 bits.
Int32s ==
    {(-2147483647) - 1, -2147483647, -16777217, -16777216, -65537, -65536,
     -32769, -32768, -257, -256, -129, -128, -2, -1, 0, 1, 2, 10, 127, 128,
     255, 256, 32767, 32768, 65535, 65536, 16777215, 16777216, 2147483646,
     2147483647}

\* binary.Write(&buf, binary.LittleEndian, int32(d)): two's complement bytes
Int32Bytes(v) ==
    LET low == IF v < 0 THEN (v + 2147483647) + 1 ELSE v
    IN  <<low % 256, (low \div 256) % 256, (low \div 65536) % 256,
          (low \div 16777216) + (IF v < 0 THEN 128 ELSE 0)>>

Uint32_BigEndian(b) ==
    <<b[4] + 256 * b[3] + 65536 * b[2] + 16777216 * (b[1] % 128), b[1] \div 128>>

\* binary.LittleEndian.Uint32(buf), as <<bits 0..30, bit 31>>
Uint32(b) ==
    <<b[1] + 256 * b[2] + 65536 * b[3] + 16777216 * (b[4] % 128), b[4] \div 128>>

\* int(u) for a uint32 u where int has 32 bits
IntOf(u) ==
    IF u[2] = 1 THEN (u[1] - 2147483647) - 1 ELSE u[1]

\* c.SetData(hnd, token, v) with v an int
SetDataInt ==
    /\ iStage = "none"
    /\ \E v \in Int32s, k \in {"VTINTEGER", "VTDOUBLE"}, c \in {OLXAPIOk, OLXAPIFailure} :
        /\ iIn' = v
        /\ iKind' = k
        /\ iRet' = IF k # "VTINTEGER" THEN "ErrDataType" ELSE NativeErr(c)
        /\ pending' = IF k = "VTINTEGER" /\ c = OLXAPIOk THEN Int32Bytes(v) ELSE pending
        /\ iFailed' = (k # "VTINTEGER" \/ c = OLXAPIFailure)
    /\ iStage' = "set"
    /\ UNCHANGED <<stored, iOut, intioFrame>>

\* c.PostData(hnd)
PostData ==
    /\ iStage = "set"
    /\ \E c \in {OLXAPIOk, OLXAPIFailure} :
        /\ iRet' = NativeErr(c)
        /\ stored' = IF c = OLXAPIOk /\ pending # <<>> THEN pending ELSE stored
        /\ pending' = IF c = OLXAPIOk THEN <<>> ELSE pending
        /\ iFailed' = (iFailed \/ c = OLXAPIFailure)
    /\ iStage' = "posted"
    /\ UNCHANGED <<iKind, iIn, iOut, intioFrame>>

\* var got int; c.GetData(hnd, token).Scan(&got)
GetDataInt ==
    /\ iStage = "posted"
    /\ \E c \in {OLXAPIOk, OLXAPIFailure} :
        /\ iRet' = IF iKind # "VTINTEGER" THEN "ErrScanType" ELSE NativeErr(c)
        /\ iOut' = IF iKind = "VTINTEGER" /\ c = OLXAPIOk
                   THEN IntOf(Uint32(stored)) ELSE iOut
        /\ iFailed' = (iFailed \/ iKind # "VTINTEGER" \/ c = OLXAPIFailure)
    /\ iStage' = "got"
    /\ UNCHANGED <<iKind, iIn, pending, stored, intioFrame>>

\* ---- TagsGet, TagsSet, TagsAppend ----
\* the strings a caller passes as one tag: "", "a", "b", "," and " "
TagStrs ==
    {<<>>} \cup {<<a>> : a \in {97, 98, COMMA, SPACE}}

\* TagsSet(hnd, tags...): n = 0, 1 or 2 tags
TagLists ==
    {<<>>} \cup {<<x>> : x \in TagStrs} \cup {<<x, y>> : x \in TagStrs, y \in TagStrs}

RECURSIVE Join(_, _)
\* strings.Join(elems, sep) for a separator of one byte
Join(elems, sep) ==
    IF elems = <<>> THEN <<>>
    ELSE IF Len(elems) = 1 THEN elems[1]
    ELSE elems[1] \o <<sep>> \o Join(Tail(elems), sep)

RECURSIVE TrimSpace(_)
\* strings.TrimSpace(s)
TrimSpace(b) ==
    IF b = <<>> THEN b
    ELSE IF b[1] = SPACE THEN TrimSpace(Tail(b))
    ELSE IF b[Len(b)] = SPACE THEN TrimSpace(SubSeq(b, 1, Len(b) - 1))
    ELSE b

\* TagsGet: s := TrimSpace(...); if s == "" { return nil }; strings.Split(s, ",")
TagsOf(str) ==
    IF TrimSpace(str) = <<>> THEN <<>> ELSE Split(TrimSpace(str), COMMA)

\* c.TagsSet(hnd, tags...): SetObjTags joins the tags and hands them over
TagsSet ==
    \E list \in TagLists, c \in {OLXAPIOk, OLXAPIFailure} :
        /\ lastSet' = list
        /\ setErr' = NativeErr(c)
        /\ engTags' = IF c = OLXAPIOk THEN Join(list, COMMA) ELSE engTags
        /\ lastGot' = <<>>
        /\ getErr' = "nil"
        /\ tagStage' = "set"
        /\ UNCHANGED <<apc, aread, tagsFrame>>

\* c.TagsGet(hnd)
TagsGet ==
    /\ tagStage \in {"none", "set"}
    /\ \E c \in {OLXAPIOk, OLXAPIFailure} :
        /\ getErr' = NativeErr(c)
        /\ lastGot' = IF c = OLXAPIOk THEN TagsOf(engTags) ELSE <<>>
    /\ tagStage' = "got"
    /\ UNCHANGED <<engTags, lastSet, setErr, apc, aread, tagsFrame>>

\* TagsAppend(hnd, newTags...): tags, err := c.TagsGet(hnd), then
\* c.TagsSet(hnd, append(tags, newTags...)...).  GetObjTags and SetObjTags each
\* lock the mutex of the client, make their native call and unlock.
\* Goroutine t appends the one tag <<96 + t>>.
NewTag(t) == <<96 + t>>

\* the tags the object can have before the goroutines append
SeedLists == {<<<<120>>>>, <<<<121>>>>, <<<<120>>, <<121>>>>}

appendFrame ==
    <<pc, op, cl, r, ncalls, ret, msgOwn, pre, overlap, faultRun, faultPicked,
      engRun, engPicked, errOwner, lastSet, lastGot, tagStage, setErr, getErr,
      cursor, data, conv, released, phasor, config, intio, lines>>

\* GetObjTags: o.Lock()
AppendGetLock(t) ==
    /\ apc[t] = "idle"
    /\ mutex[SessionClient] = NoThread
    /\ mutex' = [mutex EXCEPT ![SessionClient] = t]
    /\ apc' = [apc EXCEPT ![t] = "get"]
    /\ UNCHANGED <<engTags, aread, appendFrame>>

\* GetObjTags: the native call, o.Unlock(), and TagsGet's strings.Split
AppendGet(t) ==
    /\ apc[t] = "get"
    /\ aread' = [aread EXCEPT ![t] = TagsOf(engTags)]
    /\ mutex' = [mutex EXCEPT ![SessionClient] = NoThread]
    /\ apc' = [apc EXCEPT ![t] = "read"]
    /\ UNCHANGED <<engTags, appendFrame>>

\* SetObjTags: o.Lock()
AppendSetLock(t) ==
    /\ apc[t] = "read"
    /\ mutex[SessionClient] = NoThread
    /\ mutex' = [mutex EXCEPT ![SessionClient] = t]
    /\ apc' = [apc EXCEPT ![t] = "set"]
    /\ UNCHANGED <<engTags, aread, appendFrame>>

\* SetObjTags: the native call with strings.Join(append(tags, newTags...), ","),
\* and o.Unlock()
AppendSet(t) ==
    /\ apc[t] = "set"
    /\ engTags' = Join(Append(aread[t], NewTag(t)), COMMA)
    /\ mutex' = [mutex EXCEPT ![SessionClient] = NoThread]
    /\ apc' = [apc EXCEPT ![t] = "done"]
    /\ UNCHANGED <<aread, appendFrame>>

\* the object gets its first tags before any goroutine appends
SeedTags ==
    /\ engTags = <<>>
    /\ \A t \in Threads : apc[t] = "idle"
    /\ \E l \in SeedLists : engTags' = Join(l, COMMA)
    /\ UNCHANGED <<mutex, aread, apc, appendFrame>>

\* ---- specifications ----
\* Goroutines sharing one client run its fault session.
Next ==
    \E t \in Threads :
        \/ BeginSession(t)
        \/ BeginPlain(t)
        \/ Finish(t)
        \/ ClientDoFaultNil(t)
        \/ RfRun(t)
        \/ RfPicked(t)
        \/ GateCall(t)
        \/ NativeReturn(t)
        \/ DfPost(t)
        \/ PfCheck(t)
        \/ PfPost(t)
        \/ PfClear(t)
        \/ GsCheckRun(t)
        \/ GsCheckPicked(t)
        \/ EsCall(t)
        \/ EsReturn(t)

Spec == Init /\ [][Next]_vars

\* One goroutine runs a fault session; its configs can be nil.
NextConfig ==
    \E t \in {1} :
        \/ BeginConfig(t)
        \/ Finish(t)
        \/ ClientDoFaultNil(t)
        \/ ClientDoSteppedEventNil(t)
        \/ RfRun(t)
        \/ RfPicked(t)
        \/ GateCall(t)
        \/ NativeReturn(t)
        \/ DfPost(t)
        \/ PfCheck(t)
        \/ PfPost(t)
        \/ PfClear(t)
        \/ GsCheckRun(t)
        \/ GsCheckPicked(t)
        \/ EsCall(t)
        \/ EsReturn(t)

SpecConfig == Init /\ [][NextConfig]_vars

\* One goroutine runs a fault session and replaces the model in between.
NextModel ==
    \E t \in {1} :
        \/ BeginModel(t)
        \/ Finish(t)
        \/ RfRun(t)
        \/ RfPicked(t)
        \/ GateCall(t)
        \/ NativeReturn(t)
        \/ DfPost(t)
        \/ PfCheck(t)
        \/ PfPost(t)
        \/ PfClear(t)
        \/ GsCheckRun(t)
        \/ GsCheckPicked(t)
        \/ EsCall(t)
        \/ EsReturn(t)

SpecModel == Init /\ [][NextModel]_vars

\* Goroutines call plain gate operations on the clients of the process.
NextGate ==
    \E t \in Threads :
        \/ BeginGate(t)
        \/ Finish(t)
        \/ GateCall(t)
        \/ SecondCall(t)
        \/ NativeReturn(t)
        \/ EsCall(t)
        \/ EsReturn(t)

SpecGate == Init /\ [][NextGate]_vars

\* Goroutines use a client and release it.
NextRelease ==
    \E t \in Threads :
        \/ BeginRelease(t)
        \/ Finish(t)
        \/ GateCall(t)
        \/ NativeReturn(t)
        \/ EsCall(t)
        \/ EsReturn(t)
        \/ ReleaseLock(t)
        \/ ReleaseUnload(t)

SpecRelease == Init /\ [][NextRelease]_vars

\* One triple of phasors is converted to sequence components and back.
NextPhasor ==
    \/ PhaseToSeqCall
    \/ SeqToPhaseCall

SpecPhasor == Init /\ [][NextPhasor]_vars

\* A FaultConfig is made and FaultConn options are applied to it.
NextFaultConn ==
    \/ NewFaultConfig
    \/ FaultConn

SpecFaultConn == Init /\ [][NextFaultConn]_vars

\* An int is set, posted and read back.
\* A FaultConfig is made and location options are applied to it.
NextFaultOpt ==
    \/ NewFaultConfig
    \/ FaultLocation

SpecFaultOpt == Init /\ [][NextFaultOpt]_vars

\* Lines of the model are loaded into Line objects.
NextLine ==
    \/ LineModel
    \/ GetLine

SpecLine == Init /\ [][NextLine]_vars

NextSetData ==
    \/ SetDataInt
    \/ PostData
    \/ GetDataInt

SpecSetData == Init /\ [][NextSetData]_vars

\* The tags of an object are set and read.
NextTags ==
    \/ TagsSet
    \/ TagsGet

SpecTags == Init /\ [][NextTags]_vars

\* Every goroutine appends its tag to the tags of the same object.
NextTagsAppend ==
    \/ SeedTags
    \/ \E t \in Threads :
        \/ AppendGetLock(t)
        \/ AppendGet(t)
        \/ AppendSetLock(t)
        \/ AppendSet(t)

SpecTagsAppend == Init /\ [][NextTagsAppend]_vars

\* One goroutine makes cursors and steps them.
NextCursor ==
    \/ NewCursor
    \/ HandleNext
    \/ SteppedEventNext
    \/ FaultNext
    \/ OldEquipmentNext
    \/ OldFaultNext
    \/ OldFaultReset

SpecCursor == Init /\ [][NextCursor]_vars

\* One goroutine reads fields with GetData and Scan.
NextData ==
    \/ GetDataCall
    \/ GetDataToken
    \/ Scan

SpecData == Init /\ [][NextData]_vars

\* The conversion functions applied to the inputs of their domains.
NextConv ==
    \/ ScanValue
    \/ Encode
    \/ SendString
    \/ Decode
    \/ SplitDouble

SpecConv == Init /\ [][NextConv]_vars

\* ---- what a caller observes when its operation has returned ----
Returned(t, o) == pc[t] = "ret" /\ op[t] = o
\* The operation ran with no other operation on the same client.
Alone(t) == ~overlap[t]
Flags(c) == <<faultRun[c], faultPicked[c]>>

\* ---- claims ----

\* C1: in every reachable state, including the intermediate states of DoFault,
\* DoSteppedEvent and PickFault, faultPicked implies faultRun.
C1_PickedImpliesRun ==
    \A c \in Clients : faultPicked[c] => faultRun[c]

\* C2: no two native procedure invocations execute at the same time, whether
\* issued on one client or on two clients.
C2_NoConcurrentNative ==
    \A t, u \in Threads : (InNative(t) /\ InNative(u)) => t = u

\* C3: when a DoFault or DoSteppedEvent call that reached the engine returns,
\* the flags are (true, false) if the engine reported success and
\* (false, false) if it reported failure, whatever they were before.
C3_FaultCallSetsFlags ==
    \A t \in Threads :
        (pc[t] = "ret" /\ op[t] \in FaultOps /\ Alone(t) /\ ncalls[t] > 0) =>
            /\ r[t] = OLXAPIOk => (Flags(cl[t]) = <<TRUE, FALSE>> /\ ret[t] = "nil")
            /\ r[t] = OLXAPIFailure => (Flags(cl[t]) = <<FALSE, FALSE>> /\ ret[t] = "ErrOlxAPI")

\* C3 witness: a successful DoFault has returned that was called with both
\* flags set, i.e. after an earlier DoFault and PickFault.
C3_Witness ==
    \E t \in Threads :
        /\ Returned(t, "DoFault") /\ Alone(t)
        /\ pre[t] = <<TRUE, TRUE>> /\ r[t] = OLXAPIOk /\ ncalls[t] > 0

\* C4: PickFault called while faultRun is false returns ErrFaultNotRun, makes
\* no native invocation and leaves both flags as they were.
C4_PickFaultNotRun ==
    \A t \in Threads :
        (Returned(t, "PickFault") /\ Alone(t) /\ ~pre[t][1]) =>
            /\ ret[t] = "ErrFaultNotRun"
            /\ ncalls[t] = 0
            /\ Flags(cl[t]) = pre[t]

\* C4 witness: a PickFault called with faultRun false has returned.
C4_Witness ==
    \E t \in Threads :
        Returned(t, "PickFault") /\ Alone(t) /\ ~pre[t][1] /\ ret[t] = "ErrFaultNotRun"

\* C5: GetSCVoltage and GetSCCurrent check faultRun first and faultPicked
\* second: ErrFaultNotRun when faultRun is false, ErrFaultNotPicked when
\* faultRun is true and faultPicked false, no native invocation in either
\* case, and a native invocation when both are true.
C5_QueryGating ==
    \A t \in Threads :
        (pc[t] = "ret" /\ op[t] \in QueryOps /\ Alone(t)) =>
            /\ ~pre[t][1] => (ret[t] = "ErrFaultNotRun" /\ ncalls[t] = 0)
            /\ (pre[t][1] /\ ~pre[t][2]) => (ret[t] = "ErrFaultNotPicked" /\ ncalls[t] = 0)
            /\ (pre[t][1] /\ pre[t][2]) => (ncalls[t] >= 1 /\ ret[t] \in {"nil", "ErrOlxAPI"})

\* C5 witness: a query called after a fault run without a pick was rejected
\* with ErrFaultNotPicked.
C5_Witness ==
    \E t \in Threads :
        /\ Returned(t, "GetSCCurrent") /\ Alone(t)
        /\ pre[t] = <<TRUE, FALSE>> /\ ret[t] = "ErrFaultNotPicked"

\* C6: PickFault called with faultRun true leaves faultPicked true when the
\* engine reports success, and leaves it false and returns ErrOlxAPI when the
\* engine reports failure; faultRun is unchanged.
C6_PickFaultSetsPicked ==
    \A t \in Threads :
        (Returned(t, "PickFault") /\ Alone(t) /\ pre[t][1]) =>
            /\ ncalls[t] >= 1
            /\ faultRun[cl[t]]
            /\ r[t] = OLXAPIOk => (faultPicked[cl[t]] /\ ret[t] = "nil")
            /\ r[t] = OLXAPIFailure => (~faultPicked[cl[t]] /\ ret[t] = "ErrOlxAPI")

\* C6 witness: a PickFault made after an earlier successful pick has failed
\* in the engine and returned.
C6_Witness ==
    \E t \in Threads :
        /\ Returned(t, "PickFault") /\ Alone(t)
        /\ pre[t] = <<TRUE, TRUE>> /\ r[t] = OLXAPIFailure /\ ret[t] = "ErrOlxAPI"

\* C7: every gate operation returns with the lock released: a returned
\* operation does not hold the mutex, the mutex of a client with no operation
\* in progress is free, and no operation waits for a mutex it holds itself
\* (which would block it forever, sync.Mutex not being reentrant), so that
\* MakeOutageList returns its error when the engine fails.
C7_GateReleasesLock ==
    /\ \A t \in Threads : pc[t] = "ret" => mutex[cl[t]] # t
    /\ \A c \in Clients :
        (\A t \in Threads : ~(Active(t) /\ cl[t] = c)) => mutex[c] = NoThread
    /\ \A t \in Threads : pc[t] = "es_lock" => mutex[cl[t]] # t

\* C8: every DoFault or DoSteppedEvent call that returns an error leaves the
\* flags (false, false), a call rejected for its nil config included.
C8_FailedFaultCallResets ==
    \A t \in Threads :
        (pc[t] = "ret" /\ op[t] \in FaultOps /\ Alone(t) /\ ret[t] # "nil") =>
            Flags(cl[t]) = <<FALSE, FALSE>>

\* C9: a pickFault, getSCVoltage or getSCCurrent native invocation starts only
\* if the most recent doFault/doSteppedEvent invocation returned success, and
\* a getSCVoltage/getSCCurrent invocation only if a pickFault invocation has
\* succeeded since that fault run.
C9_NativeQueriesGated ==
    [][\A t \in Threads :
        (pc[t] = "lock" /\ pc'[t] = "incall") =>
            /\ op[t] \in QueryOps \cup {"PickFault"} => engRun
            /\ op[t] \in QueryOps => engPicked]_vars

\* C10: the message attached to a returned ErrOlxAPI is the one of the
\* caller's own failure: no native invocation of another goroutine lies
\* between the failed call and the ErrorString call.
C10_ErrorMessageIsOwn ==
    \A t \in Threads :
        (pc[t] = "ret" /\ ret[t] = "ErrOlxAPI") => msgOwn[t]

\* C11: every read and every write of faultRun and faultPicked is made by a
\* goroutine that holds the mutex: a goroutine about to load a flag for its
\* gating check (PickFault, GetSCVoltage, GetSCCurrent) is the holder of its
\* client's mutex, so the load cannot fall between two stores of another
\* goroutine's DoFault, DoSteppedEvent or PickFault.
C11_FlagAccessUnderLock ==
    \A t \in Threads :
        pc[t] \in {"pf_chk", "gs_chkrun", "gs_chkpicked"} => mutex[cl[t]] = t

\* C12: a step that changes faultRun or faultPicked of a client is a step of
\* a goroutine executing DoFault, DoSteppedEvent or PickFault on that client;
\* the steps of GetSCVoltage, GetSCCurrent, GetData, a handle-cursor step and
\* the error-string fetch of those operations leave both flags unchanged.
C12_OnlyFaultOpsChangeFlags ==
    [][\A c \in Clients :
        (faultRun'[c] # faultRun[c] \/ faultPicked'[c] # faultPicked[c]) =>
            \E t \in Threads :
                /\ pc'[t] # pc[t]
                /\ cl[t] = c
                /\ op[t] \in FaultOps \cup {"PickFault"}]_vars

\* C12 witness: called with both flags set, a GetData has failed in the
\* engine, fetched its error string and returned; both flags are still set.
C12_Witness ==
    \E t \in Threads :
        /\ Flags(cl[t]) = <<TRUE, TRUE>> /\ Alone(t) /\ pre[t] = <<TRUE, TRUE>>
        /\ Returned(t, "GetData") /\ ret[t] = "ErrOlxAPI" /\ ncalls[t] = 2

\* C13: a handle cursor over an engine sequence of N handles followed by the
\* sentinel, the engine reporting no failure: Next() has returned true from
\* exactly the first N calls and false from every later one, and after a true
\* i-th Next() Hnd() is the i-th handle of the engine, never the sentinel.
C13_HandleCursorYieldsSequence ==
    (kind \in HandleKinds /\ ~failed) =>
        /\ nTrue = (IF nNext < items THEN nNext ELSE items)
        /\ lastRet = "true" => (hnd = nNext /\ hnd # Sentinel)

\* C14: for each get-next procedure behind a handle cursor (equipment, bus
\* equipment, equipment by tag, relay, logic scheme), a Next() whose native
\* call returned the sentinel -1 returns false and records no error.
C14_SentinelEndsIteration ==
    (kind \in HandleKinds /\ invoked /\ code = Sentinel) =>
        (lastRet = "false" /\ done /\ err = "nil")

\* C15: a Next() whose native get-next call returned the failure code returns
\* false, and the cursor then holds that failure, which it does not hold
\* after normal exhaustion.
C15_FailureRetained ==
    /\ (kind \in HandleKinds \cup {"iterator.NextEquipment"} /\ invoked /\ code = OLXAPIFailure) =>
            (lastRet = "false" /\ err # "nil")
    /\ (kind \in HandleKinds \cup {"iterator.NextEquipment"} /\ ~failed) => err = "nil"

\* C16: once Next() of a handle cursor or of a stepped-event cursor has
\* returned false, every later Next() on it returns false and does not call
\* the native procedure.
C16_ExhaustedStaysExhausted ==
    [][(/\ kind \in HandleKinds \cup {"NextSteppedEvent", "iterator.NextEquipment"}
        /\ wasFalse
        /\ kind' = kind
        /\ nNext' = nNext + 1) =>
            (lastRet' = "false" /\ ~invoked' /\ hnd' = hnd)]_vars

\* C16 witness: a handle cursor has yielded a handle, has returned false on
\* the sentinel, and has been asked again: false, with no native call.
C16_Witness ==
    /\ kind = "NextRelay" /\ items > 0 /\ nTrue = items
    /\ nNext = items + 2 /\ lastRet = "false" /\ ~invoked

\* C17: the Next() that follows Reset() on a fault cursor, also on a cursor
\* whose Next() had returned false, picks the first fault result (PickFault
\* with SFFirst) and returns true if that pick succeeds.
C17_ResetRestarts ==
    [][(/\ kind = "iterator.NextFault"
        /\ afterReset
        /\ nNext' = nNext + 1) =>
            /\ invoked'
            /\ arg' = SFFirst
            /\ code' = OLXAPIOk => lastRet' = "true"]_vars

\* C18: when a native procedure called for an operation returns the failure
\* code, the operation hands its caller a non-nil error, and the procedure is
\* not called again for the same request: once GetData has returned, a native
\* failure (of equipmentType or getData) has left Data.err set, Scan returns
\* an error, and each token has caused at most one call of each procedure.
C18_NativeFailureSurfaced ==
    /\ (pos = Len(tokens) /\ natFailed) => derr # 0
    /\ (scanRet # "none" /\ natFailed) => scanRet = "err"
    /\ nEq <= pos /\ nGet <= pos

\* C19: GetData requests every token, also after one has failed, and the
\* error Scan returns is the error of the first token that failed.
C19_FirstErrorReturned ==
    pos = Len(tokens) =>
        /\ Len(ddata) = Len(tokens)
        /\ derr = FirstFailed
        /\ (scanRet # "none" /\ FirstFailed # 0) => scanRet = "err"

\* C20: Scan called with a number of destinations different from the number
\* of tokens requested, smaller or larger, returns an error: it does not
\* panic and assigns no destination.
C20_ScanCountMismatch ==
    (scanRet # "none" /\ ndest # Len(tokens)) =>
        (scanRet = "err" /\ written = 0)

\* C21: a value decoded for a token of kind K is scanned into a (non-nil)
\* destination of type T without error if and only if T is the pointer type
\* matching K: *string, *float64, *int, *[]string, *[]int, *[]float64.
C21_ScanMatchesKind ==
    (cvRet # "none" /\ ~cvNil) =>
        (cvRet = "nil" <=> cvDest = MatchingDest(cvKind))

\* C22: UTF8NullFromString returns an error for every input containing a NUL
\* byte; for every other input it returns the input's bytes followed by
\* exactly one NUL, and decoding that result up to its first NUL gives the
\* input back.
C22_EncodeRoundTrip ==
    sFn = "UTF8NullFromString" =>
        /\ HasNUL(sIn) => sRet = "err"
        /\ ~HasNUL(sIn) =>
            /\ sRet = "nil"
            /\ sOut[1] = sIn \o <<NUL>>
            /\ Len(sOut[1]) = Len(sIn) + 1
            /\ UTF8NullToString(sOut[1]) = sIn

\* C22 witness: a string with a NUL between two letters was rejected.
C22_Witness ==
    /\ sFn = "UTF8NullFromString"
    /\ Len(sIn) = MaxStr /\ sIn[1] # NUL /\ sIn[2] = NUL /\ sIn[MaxStr] # NUL
    /\ sRet = "err"

C24_NoCallAfterRelease ==
    \A t \in Threads :
        InNative(t) =>
            /\ ~released[cl[t]]
            /\ \A u \in Threads : ~(pc[u] = "rl_unload" /\ cl[u] = cl[t])

\* C25: for every double, the low word followed by the high word of
\* float64ToUint32 is exactly the double's 64-bit pattern; NaNs, infinities,
\* negative zero and subnormals included.
C25_SplitJoinBitExact ==
    fIn # <<>> =>
        <<fWords[1][1], fWords[1][2], fWords[2][1], fWords[2][2]>> = Float64bits(fIn)

\* a negative quiet NaN whose low mantissa bit is set has been split
C25_Witness ==
    /\ fIn = <<1, 2047, 8, 0, 0, 1>>
    /\ fWords = <<<<1, 0>>, <<0, 65528>>>>

\* C26 as stated: for every triple of phase phasors, SeqToPhase(PhaseToSeq(a,
\* b, c)) equals (a, b, c).
C26_RoundTrip ==
    phOut # <<>> => \A i \in 1..3 : SamePhasor(phOut[i], phIn[i])

\* C26: for every triple of phase phasors whose three sums in PhaseToSeq stay
\* finite, SeqToPhase(PhaseToSeq(a, b, c)) equals (a, b, c).
C26_RoundTripFinite ==
    (phOut # <<>> /\ \A i \in 1..3 : Finite(phSeq[i]))
        => \A i \in 1..3 : SamePhasor(phOut[i], phIn[i])

\* an unbalanced triple of three different phasors has gone there and back
C26_Witness ==
    /\ phOut # <<>>
    /\ \A i \in 1..3 : Finite(phSeq[i])
    /\ phIn[1] # phIn[2] /\ phIn[2] # phIn[3] /\ phIn[1] # phIn[3]
    /\ \A i \in 1..3 : phSeq[i] # <<0, 0, 3>>

C28_FaultCursorCounts ==
    (kind = "NextFault" /\ ~(failed /\ arg \in 1..items)) =>
        /\ nTrue = (IF nNext <= items THEN nNext ELSE items)
        /\ (lastRet = "true" => hnd = nTrue)
        /\ (nNext > items => lastRet = "false")

\* two fault results: two true calls, then the false one
C28_Witness ==
    /\ kind = "NextFault" /\ items = 2 /\ ~(failed /\ arg \in 1..items)
    /\ nNext = 3 /\ nTrue = 2 /\ lastRet = "false"

\* C29: an operation given a string with an embedded NUL returns an encoding
\* error and does not invoke its native procedure.
C29_EmbeddedNULRejected ==
    (sFn \in StringOps /\ HasNUL(sIn)) => (sRet = "err" /\ ~sCall)

\* C30: every string decoded from a buffer of the engine holds no NUL byte and
\* only bytes that come before the first NUL of the buffer: a string field is
\* those bytes, a string array their tab-separated parts.
C30_DecodedStopsAtNUL ==
    sFn \in DecodeOps =>
        /\ \A i \in 1..Len(sOut) : ~HasNUL(sOut[i])
        /\ sOut = IF sFn = "VTARRAYSTRING"
                  THEN Split(UTF8NullToString(sIn), TAB)
                  ELSE <<UTF8NullToString(sIn)>>

\* C31: after a FaultConn option has been applied, exactly the connections it
\* names are selected; those of earlier FaultConn options are cleared.
C31_FaultConnOverrides ==
    lastConn # <<>> => Selected = {lastConn[k] : k \in 1..Len(lastConn)}

\* C32: a FaultConfig selects the union of the connections of the FaultConn
\* options applied to it.
C32_FaultConnUnion ==
    Selected = named

\* C33: when SetData of an int v on an integer token, PostData and
\* GetData/Scan into *int all succeed, the int read is v; negative v included.
C33_IntRoundTrip ==
    (iStage = "got" /\ ~iFailed) => iOut = iIn

\* the most negative int has been set, posted and read back
C33_Witness ==
    /\ iStage = "got" /\ ~iFailed
    /\ iIn = (-2147483647) - 1
    /\ stored = <<0, 0, 0, 128>>
    /\ iOut < 0

\* C34: TagsGet after a successful TagsSet(h, t1..tn) returns exactly <<t1..tn>>,
\* whatever was set before, and the empty list when n = 0 or nothing was set.
C34_TagsRoundTrip ==
    (tagStage = "got" /\ getErr = "nil" /\ setErr = "nil") => lastGot = lastSet

\* C35: once LoadDataFile, CloseDataFile or ReadChangeFile has changed the
\* model, GetSCVoltage and GetSCCurrent return a state error until a fault
\* run and a PickFault have succeeded on the new model.
C35_StaleResultsRejected ==
    \A t \in Threads :
        (pc[t] = "ret" /\ op[t] \in QueryOps /\ ~(engRun /\ engPicked)) =>
            ret[t] \in {"ErrFaultNotRun", "ErrFaultNotPicked"}

\* C36: when goroutines have appended tags to one object concurrently, the
\* object's tags hold the addition of every one of them.
C36_AppendsAllKept ==
    \A t \in Threads :
        apc[t] = "done" =>
            \E i \in 1..Len(TagsOf(engTags)) : TagsOf(engTags)[i] = NewTag(t)

\* C37: DoFault and DoSteppedEvent never panic, and when either returns
\* without having invoked the engine it returns the nil-config error.
C37_NilConfigRejected ==
    \A t \in Threads :
        (pc[t] = "ret" /\ op[t] \in {"DoFault", "DoSteppedEvent"}) =>
            /\ ret[t] # "panic"
            /\ ncalls[t] = 0 => ret[t] = "ErrNilConfig"

\* C38: every parameter a location option gave when it was last applied is
\* still in the fault-option slot the option wrote it to.
C38_LocationParamsKept ==
    \A p \in params : fltOpt[p[2]] = p[3]

\* C39: the Line GetLine returns has in R, X, R0 and X0 the values the engine
\* holds for LNdR, LNdX, LNdR0 and LNdX0.
C39_LineImpedances ==
    lnRet = "nil" =>
        /\ lnLine["R"] = lnEng["LNdR"]
        /\ lnLine["X"] = lnEng["LNdX"]
        /\ lnLine["R0"] = lnEng["LNdR0"]
        /\ lnLine["X0"] = lnEng["LNdX0"]

====
